---- MODULE Spec2Model ----
(***************************************************************************)
(* Model of the node_files tool of kubernetes-mcp-server:                  *)
(*   pkg/toolsets/core/nodes.go   nodeFiles (the tool handler)             *)
(*   pkg/kubernetes/nodes.go      NodesFiles, nodeFilesPut, nodeFilesGet,  *)
(*                                nodeFilesList, execInPod, waitForPodReady*)
(*                                                                         *)
(* Strings are sequences of tokens.  A token is a one-character string     *)
(* ("a", "'", "\n") or a literal piece of a Go format string               *)
(* ("cat > /host").  fmt.Sprintf is concatenation of token sequences, the  *)
(* empty string is << >>, and a nil error is << >>.                        *)
(***************************************************************************)
EXTENDS Integers, Sequences, FiniteSets, TLC

(***************************************************************************)
(* Bounds of the model.                                                    *)
(***************************************************************************)
\* longest local file content that RTInit enumerates
MaxLen == 3
\* duration, in seconds, of a slow pod-status read (a fast one takes 0)
SlowGet == 60
\* cap of the cluster API calls recorded for one call; the readiness loop of
\* the code ends long before it
MaxReqs == 70

(***************************************************************************)
(* Program constants.                                                      *)
(***************************************************************************)
\* waitForPodReady(ctx, ns, podName, 2*time.Minute), in seconds
ReadyTimeout == 120
\* time.Sleep(2 * time.Second), in seconds
PollInterval == 2
\* context.WithTimeout(context.Background(), 30*time.Second), in seconds
DeleteTimeout == 30

Alphabet == {"a", "'", "\n"}

\* every string over Alphabet of length at most n
StringsUpTo(n) == UNION {[1..k -> Alphabet] : k \in 0..n}

(***************************************************************************)
(* String helpers.                                                         *)
(***************************************************************************)
\* strings.ReplaceAll(s, old, new) for a one-character old
RECURSIVE ReplaceAll(_, _, _)
ReplaceAll(s, old, new) ==
    IF s = << >> THEN << >>
    ELSE (IF Head(s) = old THEN new ELSE <<Head(s)>>) \o ReplaceAll(Tail(s), old, new)

\* index of the last "/" token of p, 0 when there is none
RECURSIVE LastSlash(_, _)
LastSlash(p, i) ==
    IF i = 0 THEN 0 ELSE IF p[i] = "/" THEN i ELSE LastSlash(p, i - 1)

\* filepath.Dir for cleaned paths: all but the last element of the path
Dir(p) ==
    LET i == LastSlash(p, Len(p))
    IN  IF i = 0 THEN <<".">>
        ELSE IF i = 1 THEN <<"/">>
        ELSE SubSeq(p, 1, i - 1)

\* a base name that keeps the directories of the path
BaseWholePath(p) == p

\* filepath.Base for cleaned paths: the last element of the path
Base(p) ==
    LET i == LastSlash(p, Len(p))
    IN  IF p = << >> THEN <<".">>
        ELSE IF p = <<"/">> THEN <<"/">>
        ELSE SubSeq(p, i + 1, Len(p))

\* os.MkdirAll(d, 0755): d and every directory above it
Ancestors(d) ==
    {SubSeq(d, 1, j) : j \in {i \in 1..Len(d) :
                                 \/ i = 1 /\ d[1] = "/"
                                 \/ d[i] # "/" /\ (i = Len(d) \/ d[i + 1] = "/")}}

(***************************************************************************)
(* The remote shell, /bin/sh -c script, run in the sandbox container.      *)
(* A node file system is a record [files, dirs]: files maps the path of    *)
(* each regular file to its content, dirs is the set of directories.       *)
(***************************************************************************)
\* the lines of a text: split at every "\n" token
RECURSIVE SplitLines(_, _)
SplitLines(s, cur) ==
    IF s = << >> THEN <<cur>>
    ELSE IF Head(s) = "\n" THEN <<cur>> \o SplitLines(Tail(s), << >>)
    ELSE SplitLines(Tail(s), Append(cur, Head(s)))

\* a line that consists of the here-document delimiter EOF and nothing else
IsDelimiter(line) == line \in {<<"EOF">>, <<"E", "O", "F">>}

\* index of the first delimiter line at or after i, 0 when there is none
RECURSIVE FirstDelimiter(_, _)
FirstDelimiter(lines, i) ==
    IF i > Len(lines) THEN 0
    ELSE IF IsDelimiter(lines[i]) THEN i
    ELSE FirstDelimiter(lines, i + 1)

\* the text of a here-document: every body line followed by a newline
RECURSIVE JoinLines(_)
JoinLines(lines) ==
    IF lines = << >> THEN << >>
    ELSE Head(lines) \o <<"\n">> \o JoinLines(Tail(lines))

\* cat > path << 'EOF': the body is taken literally (quoted delimiter) up to
\* the first delimiter line, or up to the end of the script without one
HereDoc(lines) ==
    LET d == FirstDelimiter(lines, 2)
    IN  IF d = 0 THEN [body |-> JoinLines(Tail(lines)), rest |-> << >>]
        ELSE [body |-> JoinLines(SubSeq(lines, 2, d - 1)),
              rest |-> SubSeq(lines, d + 1, Len(lines))]

\* a device of the node whose read never reaches the end of the file
DevZero == <<"/", "dev", "/", "zero">>

ShOk(out, fs) == [stdout |-> out, stderr |-> << >>, exit |-> 0, fs |-> fs]
ShFail(msg, fs) == [stdout |-> << >>, stderr |-> msg, exit |-> 1, fs |-> fs]

\* the effect of a script, given as its lines, on the node file system and
\* its two streams
ShLines(lines, fs) ==
    LET first == lines[1]
        verb  == IF first = << >> THEN "" ELSE Head(first)
    IN  IF verb = "mkdir -p /host" THEN
            LET d == <<"/host">> \o Tail(first)
            IN  IF d \in DOMAIN fs.files
                THEN ShFail(<<"mkdir: can't create directory: File exists">>, fs)
                ELSE ShOk(<< >>, [fs EXCEPT !.dirs = @ \cup {d}])
        ELSE IF verb = "cat > /host" THEN
            LET p == <<"/host">> \o SubSeq(first, 2, Len(first) - 1)
                h == HereDoc(lines)
            IN  IF p \in fs.dirs
                THEN ShFail(<<"sh: can't create: Is a directory">>, fs)
                ELSE [stdout |-> << >>,
                      stderr |-> IF h.rest = << >> THEN << >> ELSE <<"sh: not found">>,
                      exit   |-> IF h.rest = << >> THEN 0 ELSE 127,
                      fs     |-> [fs EXCEPT !.files =
                                     [q \in (DOMAIN @) \cup {p} |->
                                         IF q = p THEN h.body ELSE @[q]]]]
        ELSE IF verb = "cat /host" THEN
            LET p == <<"/host">> \o Tail(first)
            IN  IF Tail(first) = DevZero THEN ShOk(<<"0", "0">>, fs)
                ELSE IF p \in DOMAIN fs.files THEN ShOk(fs.files[p], fs)
                ELSE IF p \in fs.dirs THEN ShFail(<<"cat: read error: Is a directory">>, fs)
                ELSE ShFail(<<"cat: can't open: No such file or directory">>, fs)
        ELSE IF verb = "ls -la /host" THEN
            LET p == <<"/host">> \o Tail(first)
            IN  IF p \in DOMAIN fs.files \/ p \in fs.dirs
                THEN ShOk(<<"ls -la of ">> \o p, fs)
                ELSE ShFail(<<"ls: No such file or directory">>, fs)
        ELSE ShFail(<<"sh: not found">>, fs)

\* Image: opts.Image: the tools of the sandbox container are those of the
\* image the caller names.  The tools of busybox write as ShLines says; the
\* tools of the image "chatty" write a warning on standard error as well;
\* those of the image "errout" write their report on standard error and
\* nothing on standard output.
ImageTools(run, image) ==
    IF image = <<"chatty">>
    THEN [run EXCEPT !.stderr = @ \o <<"warning">>]
    ELSE IF image = <<"errout">>
    THEN [run EXCEPT !.stdout = << >>, !.stderr = run.stdout \o @]
    ELSE run

\* /bin/sh -c script (the script is split into its lines once)
Sh(script, fs) ==
    CHOOSE r \in {ShLines(lines, fs) : lines \in {SplitLines(script, << >>)}} : TRUE

(***************************************************************************)
(* Remote command execution: execInPod with the fallback executor.         *)
(***************************************************************************)
\* outcomes of establishing a stream on one transport
\* "ok": the stream was established and the command ran to its end;
\* "Broken": it was established, the command ran and its output was captured,
\* and the stream then ended with an error; the others: it was not established
StreamOutcomes == {"ok", "UpgradeFailure", "HTTPSProxyError", "OtherError", "Broken"}

\* the command ran on a stream with this outcome
Established(o) == o \in {"ok", "Broken"}

\* a predicate that falls back to the second transport on every failure
ShouldFallbackOnAnyError(e) == e # "ok"

\* func(err error) bool { return IsUpgradeFailure(err) || IsHTTPSProxyError(err) }
ShouldFallback(e) == e \in {"UpgradeFailure", "HTTPSProxyError"}

\* a fallback executor that goes back to WebSocket when SPDY failed as well
FallbackStreamRetries(ws, spdy, cancelled) ==
    LET w == IF cancelled THEN "OtherError" ELSE ws
    IN  IF ShouldFallback(w)
        THEN IF spdy # "ok"
             THEN [tried   |-> <<[transport |-> "websocket", outcome |-> w],
                                 [transport |-> "spdy", outcome |-> spdy],
                                 [transport |-> "websocket", outcome |-> "ok"]>>,
                   outcome |-> "ok"]
             ELSE [tried   |-> <<[transport |-> "websocket", outcome |-> w],
                                 [transport |-> "spdy", outcome |-> spdy]>>,
                   outcome |-> spdy]
        ELSE [tried   |-> <<[transport |-> "websocket", outcome |-> w]>>,
              outcome |-> w]

\* remotecommand.NewFallbackExecutor(webSocketExec, spdyExec, shouldFallback)
\* and its StreamWithContext: the transports attempted, in order, and the
\* outcome of the last one.  A cancelled context fails the primary attempt
\* with an error that is neither an upgrade failure nor a proxy error.
FallbackStream(ws, spdy, cancelled) ==
    LET w == IF cancelled THEN "OtherError" ELSE ws
    IN  IF ShouldFallback(w)
        THEN [tried   |-> <<[transport |-> "websocket", outcome |-> w],
                            [transport |-> "spdy", outcome |-> spdy]>>,
              outcome |-> spdy]
        ELSE [tried   |-> <<[transport |-> "websocket", outcome |-> w]>>,
              outcome |-> w]

\* an execInPod that returns the error of the stream without the captured
\* standard error
execOutputDropsStderr(f, r) ==
    LET stderr == IF Established(f.outcome) THEN r.stderr ELSE << >>
        stdout == IF Established(f.outcome) THEN r.stdout ELSE << >>
        err == IF f.outcome # "ok" THEN <<f.outcome>>
               ELSE IF r.exit # 0 THEN <<"command terminated with non-zero exit code">>
               ELSE << >>
    IN  IF err # << >>
        THEN [out |-> << >>, err |-> err, tried |-> f.tried]
        ELSE IF Len(stderr) > 0 /\ Len(stdout) = 0
        THEN [out |-> stderr, err |-> << >>, tried |-> f.tried]
        ELSE [out |-> stdout, err |-> << >>, tried |-> f.tried]

\* an execInPod that returns standard output whatever standard error holds
execOutputStdoutOnly(f, r) ==
    LET stderr == IF Established(f.outcome) THEN r.stderr ELSE << >>
        stdout == IF Established(f.outcome) THEN r.stdout ELSE << >>
        err == IF f.outcome # "ok" THEN <<f.outcome>>
               ELSE IF r.exit # 0 THEN <<"command terminated with non-zero exit code">>
               ELSE << >>
    IN  IF err # << >>
        THEN [out |-> << >>,
              err |-> IF Len(stderr) > 0
                      THEN <<"exec error: ">> \o stderr \o <<": ">> \o err
                      ELSE err,
              tried |-> f.tried]
        ELSE [out |-> stdout, err |-> << >>, tried |-> f.tried]

\* an execInPod that returns standard output followed by standard error
execOutputConcatenates(f, r) ==
    LET stderr == IF Established(f.outcome) THEN r.stderr ELSE << >>
        stdout == IF Established(f.outcome) THEN r.stdout ELSE << >>
        err == IF f.outcome # "ok" THEN <<f.outcome>>
               ELSE IF r.exit # 0 THEN <<"command terminated with non-zero exit code">>
               ELSE << >>
    IN  IF err # << >>
        THEN [out |-> << >>,
              err |-> IF Len(stderr) > 0
                      THEN <<"exec error: ">> \o stderr \o <<": ">> \o err
                      ELSE err,
              tried |-> f.tried]
        ELSE [out |-> stdout \o stderr, err |-> << >>, tried |-> f.tried]

\* the end of execInPod: f is what the fallback executor did and r is what
\* the command did, if a stream was established
execOutput(f, r) ==
    LET stderr == IF Established(f.outcome) THEN r.stderr ELSE << >>
        stdout == IF Established(f.outcome) THEN r.stdout ELSE << >>
        err == IF f.outcome # "ok" THEN <<f.outcome>>
               ELSE IF r.exit # 0 THEN <<"command terminated with non-zero exit code">>
               ELSE << >>
    IN  IF err # << >>
        THEN [out |-> << >>,
              err |-> IF Len(stderr) > 0
                      THEN <<"exec error: ">> \o stderr \o <<": ">> \o err
                      ELSE err,
              tried |-> f.tried]
        ELSE IF Len(stderr) > 0 /\ Len(stdout) = 0
        THEN [out |-> stderr, err |-> << >>, tried |-> f.tried]
        ELSE [out |-> stdout, err |-> << >>, tried |-> f.tried]

\* execInPod(ctx, namespace, podName, command): newErr is a failure of one of
\* the executor constructors; ws and spdy are the outcomes the two transports
\* would have; run is what the command does when a stream is established.
\* The result has the output, the error, the transports tried and the node
\* file system afterwards.
execInPod(run, fs, newErr, ws, spdy, cancelled) ==
    IF newErr
    THEN [out |-> << >>, err |-> <<"executor construction failed">>,
          tried |-> << >>, fs |-> fs]
    ELSE CHOOSE e \in
           {[out |-> execOutput(f, run).out,
             err |-> execOutput(f, run).err,
             tried |-> f.tried,
             fs |-> IF Established(f.outcome) THEN run.fs ELSE fs] :
               f \in {FallbackStream(ws, spdy, cancelled)}} : TRUE

(***************************************************************************)
(* Tool arguments: a JSON value is absent, a string, a boolean or a number.*)
(***************************************************************************)
Absent == [t |-> "absent", s |-> << >>, b |-> FALSE]
Str(s) == [t |-> "string", s |-> s, b |-> FALSE]
Bool(b) == [t |-> "bool", s |-> << >>, b |-> b]
Num == [t |-> "number", s |-> << >>, b |-> FALSE]

\* v, ok := args[name].(string): the zero value when the assertion fails
AsString(a) == IF a.t = "string" THEN a.s ELSE << >>

\* api.NewToolCallResult(content, err): an error replaces the content
NewToolCallResult(content, err) ==
    [text |-> IF err # << >> THEN err ELSE content, isError |-> err # << >>]

\* a handler that returns the failure of its result as its Go error
ReturnsGoError(r) ==
    [text |-> r.text, isError |-> r.isError, goErr |-> IF r.isError THEN r.text ELSE << >>]

\* return api.NewToolCallResult(...), nil: what the handler returns is a tool
\* result and a Go error, and the Go error is nil
Returns(r) == [text |-> r.text, isError |-> r.isError, goErr |-> << >>]

\* a wrap that returns the cause without the context
WrapDropsContext(prefix, err) == err

\* fmt.Errorf(prefix + ": %w", err)
Wrap(prefix, err) == <<prefix, ": ">> \o err

VARIABLES
    pc,            \* the stage of the call
    step,          \* the command the Executing stage is at
    args,          \* the arguments of the tool call
    opts,          \* NodeFilesOptions built by the handler
    podName,       \* the pod name generated by NodesFiles
    ctxCancelled,  \* the caller's context is cancelled or past its deadline
    now,           \* seconds elapsed since the call started
    deadline,      \* the deadline of waitForPodReady
    pod,           \* the status the last pods.Get returned
    content,       \* the file content nodeFilesPut read
    reqs,          \* the cluster API calls of this call, in order
    tried,         \* the transport attempts of this call, in order
    ret,           \* what NodesFiles returned
    delOutcome,    \* how the deferred pods.Delete ended
    toolResult,    \* what the handler returned
    localFs,       \* the local file system
    nodeFs,        \* the file system seen from the sandbox container
    cluster,       \* the names of the pods that exist in the cluster
    createdPod,    \* pods.Create returned a pod
    gate,          \* the answer of the Access Gate to the last Pods(namespace)
    prev,          \* the previous call of the caller: its arguments and its end
    streamOpen,    \* the remote stream of an exec is open, its command running
    others         \* the other calls that run at the same time, by the name
                   \* each drew: what has become of its sandbox

vars == <<pc, step, args, opts, podName, ctxCancelled, now, deadline, pod,
          content, reqs, tried, ret, delOutcome, toolResult, localFs, nodeFs,
          cluster, createdPod, gate, prev, streamOpen, others>>

(***************************************************************************)
(* Inputs.                                                                 *)
(***************************************************************************)
\* a file that exists locally and on the node, and a path that exists nowhere
EtcF == <<"/", "etc", "/", "f">>
NoSuch == <<"/", "none">>
\* destinations: in a directory to create, and directly under the root
TmpD == <<"/", "tmp", "/", "d">>
RootD == <<"/", "d">>

\* the content of the local file /etc/f
LocalContent == <<"a", "'", "\n", "a">>

\* the names rand.String(5) can give
RandStrings == {"abcde", "vwxyz"}
\* podName := fmt.Sprintf("node-files-%s", rand.String(5))
PodNames == {<<"node-files-", r>> : r \in RandStrings}

PodPhases == {"Pending", "Running", "Succeeded", "Failed", "Unknown"}
PodStatuses == [phase : PodPhases, ready : BOOLEAN]
NoPod == [phase |-> "", ready |-> FALSE]

\* the durations of a pod-status read
GetDurations == {0, SlowGet}

NoOpts == [NodeName |-> << >>, Operation |-> << >>, SourcePath |-> << >>,
           DestPath |-> << >>, Namespace |-> << >>, Image |-> << >>,
           Privileged |-> FALSE]
NoRet == [result |-> << >>, err |-> << >>]
NoResult == [text |-> << >>, isError |-> FALSE, goErr |-> << >>]
NoPrev == [args |-> Absent, pc |-> "none"]

\* well-formed calls: every operation on every source and destination
ValidArgs ==
    [node_name : {Str(<<"node1">>)},
     operation : {Str(<<"put">>), Str(<<"get">>), Str(<<"list">>), Str(<<"invalid">>)},
     source_path : {Str(EtcF), Str(NoSuch)},
     dest_path : {Absent, Str(TmpD), Str(RootD)},
     namespace : {Absent},
     image : {Absent},
     privileged : {Absent}]

\* calls with any of the required arguments missing, empty or of the wrong
\* type, and the call with none of them so
BadArgs ==
    LET ok == [node_name |-> Str(<<"node1">>), operation |-> Str(<<"list">>),
               source_path |-> Str(EtcF), dest_path |-> Absent,
               namespace |-> Str(<<"ns1">>), image |-> Str(<<"alpine">>),
               privileged |-> Bool(FALSE)]
        bad == {Absent, Str(<< >>), Num}
    IN  {[ok EXCEPT !.node_name = n, !.operation = o, !.source_path = p] :
            n \in bad \cup {ok.node_name},
            o \in bad \cup {ok.operation},
            p \in bad \cup {ok.source_path}}

\* the state before a call with arguments a, with local file content c
InitWith(argSet, contents) ==
    /\ pc = "Pending"
    /\ step = "none"
    /\ args \in argSet
    /\ opts = NoOpts
    /\ podName = << >>
    /\ ctxCancelled = FALSE
    /\ now = 0
    /\ deadline = 0
    /\ pod = NoPod
    /\ content = << >>
    /\ reqs = << >>
    /\ tried = << >>
    /\ ret = NoRet
    /\ delOutcome = "none"
    /\ toolResult = NoResult
    /\ \E c \in contents :
         localFs = [files |-> (EtcF :> c), dirs |-> {<<"/">>, <<"/", "etc">>, <<".">>}]
    /\ nodeFs = [files |-> ((<<"/host">> \o EtcF) :> <<"a", "\n">>),
                 dirs  |-> {<<"/host">>, <<"/host", "/">>, <<"/host", "/", "etc">>}]
    /\ cluster = {}
    /\ createdPod = FALSE
    /\ gate = "none"
    /\ prev = NoPrev
    /\ streamOpen = FALSE
    /\ others = [n \in PodNames |-> "none"]

(***************************************************************************)
(* The call.                                                               *)
(***************************************************************************)
\* the context of the caller, as the call sees it now
callerCtx == [kind |-> "caller", timeout |-> 0, cancelled |-> ctxCancelled]

\* a teardown that reuses the context of the caller
deleteCtxOfCaller == [kind |-> "caller", timeout |-> 0, cancelled |-> ctxCancelled]

\* context.WithTimeout(context.Background(), 30*time.Second)
deleteCtx == [kind |-> "background", timeout |-> DeleteTimeout, cancelled |-> FALSE]

\* if opts.Namespace == "" { opts.Namespace = "default" }, and the same for
\* opts.Image with "busybox": the defaults NodesFiles sets in its own copy of
\* the options
Defaults(o) ==
    [o EXCEPT !.Namespace = IF @ = << >> THEN <<"default">> ELSE @,
              !.Image     = IF @ = << >> THEN <<"busybox">> ELSE @]

\* a manifest whose container is privileged whatever the caller asked
ManifestAlwaysPrivileged(o, name) ==
    [Name          |-> name,
     Namespace     |-> o.Namespace,
     Labels        |-> [name |-> name, component |-> "node-files",
                        managedBy |-> "version.BinaryName"],
     NodeName      |-> o.NodeName,
     RestartPolicy |-> "Never",
     Containers    |-> <<[Name         |-> "node-files",
                          Image        |-> o.Image,
                          Command      |-> <<"/bin/sh", "-c", "sleep 3600">>,
                          Privileged   |-> TRUE,
                          VolumeMounts |-> <<[Name |-> "node-root",
                                              MountPath |-> "/host"]>>]>>,
     Volumes       |-> <<[Name |-> "node-root", HostPath |-> "/"]>>]

\* a manifest that leaves the choice of the node to the scheduler
ManifestOnAnyNode(o, name) ==
    [Name          |-> name,
     Namespace     |-> o.Namespace,
     Labels        |-> [name |-> name, component |-> "node-files",
                        managedBy |-> "version.BinaryName"],
     NodeName      |-> << >>,
     RestartPolicy |-> "Never",
     Containers    |-> <<[Name         |-> "node-files",
                          Image        |-> o.Image,
                          Command      |-> <<"/bin/sh", "-c", "sleep 3600">>,
                          Privileged   |-> o.Privileged,
                          VolumeMounts |-> <<[Name |-> "node-root",
                                              MountPath |-> "/host"]>>]>>,
     Volumes       |-> <<[Name |-> "node-root", HostPath |-> "/"]>>]

\* pod := &v1.Pod{...}: the manifest NodesFiles builds from its options o
\* for the pod name
Manifest(o, name) ==
    [Name          |-> name,
     Namespace     |-> o.Namespace,
     Labels        |-> [name |-> name, component |-> "node-files",
                        managedBy |-> "version.BinaryName"],
     NodeName      |-> o.NodeName,
     RestartPolicy |-> "Never",
     Containers    |-> <<[Name         |-> "node-files",
                          Image        |-> o.Image,
                          Command      |-> <<"/bin/sh", "-c", "sleep 3600">>,
                          Privileged   |-> o.Privileged,
                          VolumeMounts |-> <<[Name |-> "node-root",
                                              MountPath |-> "/host"]>>]>>,
     Volumes       |-> <<[Name |-> "node-root", HostPath |-> "/"]>>]

NoManifest == Manifest(NoOpts, << >>)

\* a call of the cluster API that goes to the namespace 'default' whatever
\* the namespace of the call
ReqInDefaultNamespace(op, ctx) ==
    [op |-> op, ns |-> <<"default">>, name |-> podName, ctx |-> ctx,
     pod |-> NoManifest, cmd |-> << >>, container |-> ""]

\* a call of the cluster API for the pod of this call, made with context ctx:
\* pod is the manifest a create sends, cmd the script an exec runs in the
\* container it names
Req(op, ctx) ==
    [op |-> op, ns |-> opts.Namespace, name |-> podName, ctx |-> ctx,
     pod |-> NoManifest, cmd |-> << >>, container |-> ""]

\* the exec request of execInPod: PodExecOptions{Container: "node-files",
\* Command: command, ...} for the pod podName of the namespace
ExecReq(cmd) ==
    [Req("exec", callerCtx) EXCEPT !.cmd = cmd, !.container = "node-files"]

\* the Access Gate's error for a denied kind, nil when it allows
PodsClient(denied) ==
    IF denied THEN <<"resource not allowed: /v1, Kind=Pod">> ELSE << >>

\* the handler's ending: ret, err := params.NodesFiles(...) and what follows
HandlerResult(r) ==
    IF r.err # << >>
    THEN Returns(NewToolCallResult(<< >>,
                     Wrap("failed to perform node file operation", r.err)))
    ELSE Returns(NewToolCallResult(r.result, << >>))

\* a return before the create succeeded that runs the delete all the same
ReturnEarlyTearsDown(result, err) ==
    /\ ret' = [result |-> result, err |-> err]
    /\ toolResult' = toolResult
    /\ pc' = "TearingDown"

\* NodesFiles returns (result, err) before the delete was deferred
ReturnEarly(result, err) ==
    /\ ret' = [result |-> result, err |-> err]
    /\ toolResult' = HandlerResult([result |-> result, err |-> err])
    /\ pc' = IF err = << >> THEN "Succeeded" ELSE "Failed"

\* a return that runs the deferred delete only when the operation succeeded
ReturnSkipsTeardown(result, err) ==
    /\ ret' = [result |-> result, err |-> err]
    /\ pc' = IF err = << >> THEN "TearingDown" ELSE "Failed"
    /\ step' = "none"

\* a return that, when a command failed, waits for the pod again and retries
ReturnRetriesWait(result, err) ==
    /\ ret' = [result |-> result, err |-> err]
    /\ pc' = IF err # << >> /\ pc = "Executing" /\ step # "dispatch"
             THEN "SandboxWaitingReady" ELSE "TearingDown"
    /\ step' = "none"

\* NodesFiles returns (result, err) with the deferred delete pending
Return(result, err) ==
    /\ ret' = [result |-> result, err |-> err]
    /\ pc' = "TearingDown"
    /\ step' = "none"

\* the handler rejects the arguments
Reject(name) ==
    /\ toolResult' = Returns(NewToolCallResult(<< >>,
                                  <<"missing required argument: ", name>>))
    /\ pc' = "Failed"
    /\ UNCHANGED <<opts, podName, ret, gate>>

\* a NodesFiles that does not check the error of Pods(namespace)
GetPodsClientUnchecked(err) ==
    /\ pc' = "SandboxCreating"
    /\ UNCHANGED <<ret, toolResult>>

\* pods, err := k.AccessControlClientset().Pods(opts.Namespace) and its check
GetPodsClient(err) ==
    IF err # << >>
    THEN ReturnEarly(<< >>, Wrap("failed to get pods client", err))
    ELSE /\ pc' = "SandboxCreating"
         /\ UNCHANGED <<ret, toolResult>>

\* nodeFiles up to the call of NodesFiles, and NodesFiles up to pods.Create;
\* rand.String(5) gives one of names
nodeFiles(names) ==
    /\ pc = "Pending"
    /\ IF args.node_name.t # "string" \/ args.node_name.s = << >>
       THEN Reject("node_name")
       ELSE IF args.operation.t # "string" \/ args.operation.s = << >>
       THEN Reject("operation")
       ELSE IF args.source_path.t # "string" \/ args.source_path.s = << >>
       THEN Reject("source_path")
       ELSE
         LET namespace == AsString(args.namespace)
             image == AsString(args.image)
             o == [NodeName   |-> args.node_name.s,
                   Operation  |-> args.operation.s,
                   SourcePath |-> args.source_path.s,
                   DestPath   |-> AsString(args.dest_path),
                   Namespace  |-> IF namespace = << >> THEN <<"default">> ELSE namespace,
                   Image      |-> IF image = << >> THEN <<"busybox">> ELSE image,
                   Privileged |-> IF args.privileged.t = "bool"
                                  THEN args.privileged.b ELSE TRUE]
         IN  /\ opts' = o
             /\ \E r \in names : podName' = <<"node-files-", r>>
             /\ \E denied \in BOOLEAN :
                  /\ gate' = IF denied THEN "denied" ELSE "allowed"
                  /\ GetPodsClient(PodsClient(denied))
    /\ UNCHANGED <<step, args, ctxCancelled, now, deadline, pod, content, reqs,
                   tried, delOutcome, localFs, nodeFs, cluster, createdPod, prev, others, streamOpen>>

\* a create that takes the pod of its name that exists as its own
CreateAdoptsExisting ==
    /\ pc = "SandboxCreating"
    /\ reqs' = Append(reqs, [Req("create", callerCtx) EXCEPT
                                 !.pod = Manifest(Defaults(opts), podName)])
    /\ \E fails \in BOOLEAN :
         IF fails \/ ctxCancelled
         THEN /\ ReturnEarly(<< >>, Wrap("failed to create pod", <<"create error">>))
              /\ UNCHANGED <<cluster, deadline, step, createdPod, gate>>
         ELSE /\ cluster' = cluster \cup {podName}
              /\ createdPod' = TRUE
              /\ \E denied \in BOOLEAN :
                   /\ gate' = IF denied THEN "denied" ELSE "allowed"
                   /\ IF denied
                      THEN /\ Return(<< >>, Wrap("pod failed to become ready",
                                                 PodsClient(denied)))
                           /\ UNCHANGED deadline
                      ELSE /\ pc' = "SandboxWaitingReady"
                           /\ deadline' = now + ReadyTimeout
                           /\ UNCHANGED <<ret, step>>
              /\ UNCHANGED toolResult
    /\ UNCHANGED <<args, opts, podName, ctxCancelled, now, pod, content, tried,
                   delOutcome, localFs, nodeFs, prev, others, streamOpen>>

\* pods.Create, and waitForPodReady up to its loop
Create ==
    /\ pc = "SandboxCreating"
    /\ reqs' = Append(reqs, [Req("create", callerCtx) EXCEPT
                                 !.pod = Manifest(Defaults(opts), podName)])
    /\ \E fails \in BOOLEAN :
         IF fails \/ ctxCancelled \/ podName \in cluster
         THEN /\ ReturnEarly(<< >>, Wrap("failed to create pod", <<"create error">>))
              /\ UNCHANGED <<cluster, deadline, step, createdPod, gate>>
         ELSE /\ cluster' = cluster \cup {podName}
              /\ createdPod' = TRUE
              /\ \E denied \in BOOLEAN :
                   /\ gate' = IF denied THEN "denied" ELSE "allowed"
                   /\ IF denied
                      THEN /\ Return(<< >>, Wrap("pod failed to become ready",
                                                 PodsClient(denied)))
                           /\ UNCHANGED deadline
                      ELSE /\ pc' = "SandboxWaitingReady"
                           /\ deadline' = now + ReadyTimeout
                           /\ UNCHANGED <<ret, step>>
              /\ UNCHANGED toolResult
    /\ UNCHANGED <<args, opts, podName, ctxCancelled, now, pod, content, tried,
                   delOutcome, localFs, nodeFs, prev, others, streamOpen>>

\* a sleep that returns at once
SleepReturnsAtOnce(t) == t

\* time.Sleep(2 * time.Second): the clock after the sleep
Sleep(t) == t + PollInterval

\* time.Now().After(deadline)
After(t, d) == t > d

\* a wait that gives up waiting at the deadline and lets the call go on
WaitTimedOutProceeds ==
    /\ pc' = "Executing"
    /\ step' = "dispatch"
    /\ UNCHANGED ret

\* a timed-out wait that returns a text with its error
WaitTimedOutWithResult ==
    Return(<<"pod is not ready">>,
           Wrap("pod failed to become ready", <<"timeout waiting for pod to be ready">>))

\* the deadline of waitForPodReady has passed: the wait and the call fail
WaitTimedOut ==
    Return(<< >>, Wrap("pod failed to become ready",
                       <<"timeout waiting for pod to be ready">>))

\* a readiness test that looks at the phase only
podReadyByPhase(st) == st.phase = "Running"

\* pod.Status.Phase == v1.PodRunning and a condition of type Ready has status
\* True (st.ready: there is such a condition)
podReady(st) == st.phase = "Running" /\ st.ready

\* a status read that does not see the context of the caller
getFailedIgnoresCtx(getErr, ctx) == getErr

\* pod, err := pods.Get(ctx, podName, ...); err != nil: the read failed in
\* the cluster, or its context is cancelled or past its deadline
getFailed(getErr, ctx) == getErr \/ ctx.cancelled

\* a wait that goes on polling after a failed status read
GetErroredRetries == UNCHANGED <<pc, step, ret>>

\* if err != nil { return err } after pods.Get: the wait and the call fail
GetErrored == Return(<< >>, Wrap("pod failed to become ready", <<"get error">>))

\* a wait that goes on polling a pod in phase Failed
PodFailedKeepsPolling == UNCHANGED <<pc, step, ret>>

\* pod.Status.Phase == v1.PodFailed: the wait and the call fail
PodFailed == Return(<< >>, Wrap("pod failed to become ready", <<"pod failed">>))

\* one iteration of the loop of waitForPodReady; the status read takes a time
\* in durations and returns an error or one of the pod statuses
waitForPodReady(durations) ==
    /\ pc = "SandboxWaitingReady"
    /\ Len(reqs) < MaxReqs
    /\ IF After(now, deadline)
       THEN /\ WaitTimedOut
            /\ UNCHANGED <<now, pod, reqs>>
       ELSE /\ reqs' = Append(reqs, Req("get", callerCtx))
            /\ \E d \in durations, getErr \in BOOLEAN, st \in PodStatuses :
                 IF getFailed(getErr, callerCtx)
                 THEN /\ now' = now + d
                      /\ pod' = NoPod
                      /\ GetErrored
                 ELSE /\ pod' = st
                      /\ IF podReady(st)
                         THEN /\ now' = now + d
                              /\ pc' = "Executing"
                              /\ step' = "dispatch"
                              /\ UNCHANGED ret
                         ELSE IF st.phase = "Failed"
                         THEN /\ now' = now + d
                              /\ PodFailed
                         ELSE /\ now' = Sleep(now + d)
                              /\ UNCHANGED <<pc, step, ret>>
    /\ UNCHANGED <<args, opts, podName, ctxCancelled, deadline, content, tried,
                   delOutcome, toolResult, localFs, nodeFs, cluster,
                   createdPod, gate, prev, others, streamOpen>>

\* a read that gives an empty content for a file it cannot read
ReadFileIgnoresError(path) ==
    IF path \in DOMAIN localFs.files
    THEN [ok |-> TRUE, content |-> localFs.files[path]]
    ELSE [ok |-> TRUE, content |-> << >>]

\* content, err := os.ReadFile(sourcePath)
ReadFile(path) ==
    IF path \in DOMAIN localFs.files
    THEN [ok |-> TRUE, content |-> localFs.files[path]]
    ELSE [ok |-> FALSE, content |-> << >>]

\* a switch whose default case is the list
DispatchDefaultsToList ==
    /\ pc = "Executing" /\ step = "dispatch"
    /\ IF opts.Operation = <<"put">>
       THEN IF ReadFile(opts.SourcePath).ok
            THEN /\ content' = ReadFile(opts.SourcePath).content
                 /\ step' = IF Dir(opts.DestPath) # <<".">> /\ Dir(opts.DestPath) # <<"/">>
                            THEN "mkdir" ELSE "write"
                 /\ UNCHANGED <<pc, ret>>
            ELSE /\ Return(<< >>, Wrap("failed to read source file", <<"open failed">>))
                 /\ UNCHANGED content
       ELSE IF opts.Operation = <<"get">>
       THEN /\ step' = "read"
            /\ UNCHANGED <<pc, ret, content>>
       ELSE IF opts.Operation = <<"list">>
       THEN /\ step' = "list"
            /\ UNCHANGED <<pc, ret, content>>
       ELSE /\ step' = "list"
            /\ UNCHANGED <<pc, ret, content>>
    /\ UNCHANGED <<args, opts, podName, ctxCancelled, now, deadline, pod, reqs,
                   tried, delOutcome, toolResult, localFs, nodeFs, cluster,
                   createdPod, gate, prev, others, streamOpen>>

\* the switch of NodesFiles, and nodeFilesPut up to its first exec
Dispatch ==
    /\ pc = "Executing" /\ step = "dispatch"
    /\ IF opts.Operation = <<"put">>
       THEN IF ReadFile(opts.SourcePath).ok
            THEN /\ content' = ReadFile(opts.SourcePath).content
                 /\ step' = IF Dir(opts.DestPath) # <<".">> /\ Dir(opts.DestPath) # <<"/">>
                            THEN "mkdir" ELSE "write"
                 /\ UNCHANGED <<pc, ret>>
            ELSE /\ Return(<< >>, Wrap("failed to read source file", <<"open failed">>))
                 /\ UNCHANGED content
       ELSE IF opts.Operation = <<"get">>
       THEN /\ step' = "read"
            /\ UNCHANGED <<pc, ret, content>>
       ELSE IF opts.Operation = <<"list">>
       THEN /\ step' = "list"
            /\ UNCHANGED <<pc, ret, content>>
       ELSE /\ Return(<< >>, <<"unknown operation: ">> \o opts.Operation)
            /\ UNCHANGED content
    /\ UNCHANGED <<args, opts, podName, ctxCancelled, now, deadline, pod, reqs,
                   tried, delOutcome, toolResult, localFs, nodeFs, cluster,
                   createdPod, gate, prev, others, streamOpen>>

\* one call of execInPod that returned e: its trace and its effect
Exec(e) ==
    /\ ~streamOpen
    /\ Len(reqs) < MaxReqs
    /\ reqs' = Append(reqs, ExecReq(e.cmd))
    /\ tried' = tried \o [i \in 1..Len(e.tried) |->
                            [exec |-> Len(reqs) + 1,
                             transport |-> e.tried[i].transport,
                             outcome |-> e.tried[i].outcome]]
    /\ nodeFs' = e.fs

\* a stream that is given a context that is never cancelled
streamCtxBackground == [kind |-> "background", timeout |-> 0, cancelled |-> FALSE]

\* executor.StreamWithContext(ctx, ...): the context of the remote stream
streamCtx == callerCtx

\* the command of the script never ends by itself: cat of an endless device
NeverEnds(script) == script = <<"cat /host">> \o DevZero

\* what execInPod can return for script when the transports end in streams.
\* A stream blocks until the remote process closes it or its context is
\* cancelled: on an established stream, a command that never ends never
\* returns.  Each result carries the script it is the result of.
ExecResults(script, streams) ==
    {[out |-> e.out, err |-> e.err, tried |-> e.tried, fs |-> e.fs, cmd |-> script] :
       e \in {x \in {execInPod(run, nodeFs, newErr, ws, spdy, streamCtx.cancelled) :
                        run \in {ImageTools(Sh(script, nodeFs), opts.Image)},
                        newErr \in BOOLEAN, ws \in streams, spdy \in streams} :
                 NeverEnds(script) =>
                     (x.tried = << >> \/ ~Established(x.tried[Len(x.tried)].outcome))}}

\* a put that goes on to its write when its mkdir -p failed
PutMkdirContinues(streams) ==
    /\ pc = "Executing" /\ step = "mkdir"
    /\ \E e \in ExecResults(<<"mkdir -p /host">> \o Dir(opts.DestPath), streams) :
         /\ Exec(e)
         /\ step' = "write"
         /\ UNCHANGED <<pc, ret>>
    /\ UNCHANGED <<args, opts, podName, ctxCancelled, now, deadline, pod, content,
                   delOutcome, toolResult, localFs, cluster,
                   createdPod, gate, prev, others, streamOpen>>

\* nodeFilesPut: the mkdir -p of the destination directory
PutMkdir(streams) ==
    /\ pc = "Executing" /\ step = "mkdir"
    /\ \E e \in ExecResults(<<"mkdir -p /host">> \o Dir(opts.DestPath), streams) :
         /\ Exec(e)
         /\ IF e.err # << >>
            THEN Return(<< >>, Wrap("failed to create destination directory", e.err))
            ELSE /\ step' = "write"
                 /\ UNCHANGED <<pc, ret>>
    /\ UNCHANGED <<args, opts, podName, ctxCancelled, now, deadline, pod, content,
                   delOutcome, toolResult, localFs, cluster,
                   createdPod, gate, prev, others, streamOpen>>

\* strings.ReplaceAll(string(content), "'", "'\\''")
escapedContent(c) == ReplaceAll(c, "'", <<"'", "\\", "'", "'">>)

\* fmt.Sprintf("cat > /host%s << 'EOF'\n%s\nEOF", destPath, escapedContent)
writeCmd(destPath, c) ==
    <<"cat > /host">> \o destPath \o <<" << 'EOF'", "\n">>
        \o escapedContent(c) \o <<"\n", "EOF">>

\* a write that is issued again when its exec failed
PutWriteRetries(streams) ==
    /\ pc = "Executing" /\ step = "write"
    /\ \E e \in ExecResults(writeCmd(opts.DestPath, content), streams) :
         /\ Exec(e)
         /\ IF e.err # << >>
            THEN UNCHANGED <<pc, step, ret>>
            ELSE Return(<<"File successfully copied from ">> \o opts.SourcePath
                            \o <<" to node:">> \o opts.DestPath, << >>)
    /\ UNCHANGED <<args, opts, podName, ctxCancelled, now, deadline, pod, content,
                   delOutcome, toolResult, localFs, cluster,
                   createdPod, gate, prev, others, streamOpen>>

\* nodeFilesPut: the write of the content
PutWrite(streams) ==
    /\ pc = "Executing" /\ step = "write"
    /\ \E e \in ExecResults(writeCmd(opts.DestPath, content), streams) :
         /\ Exec(e)
         /\ IF e.err # << >>
            THEN Return(<< >>, Wrap("failed to write file to node", e.err))
            ELSE Return(<<"File successfully copied from ">> \o opts.SourcePath
                            \o <<" to node:">> \o opts.DestPath, << >>)
    /\ UNCHANGED <<args, opts, podName, ctxCancelled, now, deadline, pod, content,
                   delOutcome, toolResult, localFs, cluster,
                   createdPod, gate, prev, others, streamOpen>>

\* a get that reports success when its local write failed
GetFileIgnoresWriteError(streams) ==
    /\ pc = "Executing" /\ step = "read"
    /\ \E e \in ExecResults(<<"cat /host">> \o opts.SourcePath, streams) :
         /\ Exec(e)
         /\ IF e.err # << >>
            THEN /\ Return(<< >>, Wrap("failed to read file from node", e.err))
                 /\ UNCHANGED localFs
            ELSE LET destPath == IF opts.DestPath = << >>
                                 THEN Base(opts.SourcePath) ELSE opts.DestPath
                     destDir == Dir(destPath)
                     mkdir == destDir # <<".">> /\ destDir # << >>
                 IN  \E mkdirOk \in BOOLEAN, writeOk \in BOOLEAN :
                       IF mkdir /\ ~mkdirOk
                       THEN /\ Return(<< >>, Wrap("failed to create local directory",
                                                  <<"mkdir failed">>))
                            /\ UNCHANGED localFs
                       ELSE IF ~writeOk
                       THEN /\ Return(<<"File successfully copied from node:">>
                                          \o opts.SourcePath \o <<" to ">> \o destPath,
                                      << >>)
                            /\ localFs' = [localFs EXCEPT !.dirs =
                                              IF mkdir THEN @ \cup Ancestors(destDir) ELSE @]
                       ELSE /\ Return(<<"File successfully copied from node:">>
                                          \o opts.SourcePath \o <<" to ">> \o destPath,
                                      << >>)
                            /\ localFs' =
                                 [files |-> [q \in (DOMAIN localFs.files) \cup {destPath} |->
                                               IF q = destPath THEN e.out
                                               ELSE localFs.files[q]],
                                  dirs  |-> IF mkdir THEN localFs.dirs \cup Ancestors(destDir)
                                            ELSE localFs.dirs]
    /\ UNCHANGED <<args, opts, podName, ctxCancelled, now, deadline, pod, content,
                   delOutcome, toolResult, cluster,
                   createdPod, gate, prev, others, streamOpen>>

\* nodeFilesGet: the remote read, then the local directory and the local file
GetFile(streams) ==
    /\ pc = "Executing" /\ step = "read"
    /\ \E e \in ExecResults(<<"cat /host">> \o opts.SourcePath, streams) :
         /\ Exec(e)
         /\ IF e.err # << >>
            THEN /\ Return(<< >>, Wrap("failed to read file from node", e.err))
                 /\ UNCHANGED localFs
            ELSE LET destPath == IF opts.DestPath = << >>
                                 THEN Base(opts.SourcePath) ELSE opts.DestPath
                     destDir == Dir(destPath)
                     mkdir == destDir # <<".">> /\ destDir # << >>
                 IN  \E mkdirOk \in BOOLEAN, writeOk \in BOOLEAN :
                       IF mkdir /\ ~mkdirOk
                       THEN /\ Return(<< >>, Wrap("failed to create local directory",
                                                  <<"mkdir failed">>))
                            /\ UNCHANGED localFs
                       ELSE IF ~writeOk
                       THEN /\ Return(<< >>, Wrap("failed to write local file",
                                                  <<"write failed">>))
                            /\ localFs' = [localFs EXCEPT !.dirs =
                                              IF mkdir THEN @ \cup Ancestors(destDir) ELSE @]
                       ELSE /\ Return(<<"File successfully copied from node:">>
                                          \o opts.SourcePath \o <<" to ">> \o destPath,
                                      << >>)
                            /\ localFs' =
                                 [files |-> [q \in (DOMAIN localFs.files) \cup {destPath} |->
                                               IF q = destPath THEN e.out
                                               ELSE localFs.files[q]],
                                  dirs  |-> IF mkdir THEN localFs.dirs \cup Ancestors(destDir)
                                            ELSE localFs.dirs]
    /\ UNCHANGED <<args, opts, podName, ctxCancelled, now, deadline, pod, content,
                   delOutcome, toolResult, cluster,
                   createdPod, gate, prev, others, streamOpen>>

\* execInPod of nodeFilesGet up to the point where StreamWithContext blocks:
\* the stream is established and the command, which never ends, is running
StreamBlocks ==
    /\ pc = "Executing" /\ step = "read"
    /\ ~streamOpen
    /\ NeverEnds(<<"cat /host">> \o opts.SourcePath)
    /\ ~streamCtx.cancelled
    /\ Len(reqs) < MaxReqs
    /\ reqs' = Append(reqs, ExecReq(<<"cat /host">> \o opts.SourcePath))
    /\ streamOpen' = TRUE
    /\ UNCHANGED <<pc, step, args, opts, podName, ctxCancelled, now, deadline, pod,
                   content, tried, ret, delOutcome, toolResult, localFs, nodeFs,
                   cluster, createdPod, gate, prev, others>>

\* the context of the open stream is cancelled: StreamWithContext returns the
\* error of the context, execInPod and nodeFilesGet return it
StreamAborted ==
    /\ pc = "Executing" /\ step = "read"
    /\ streamOpen
    /\ streamCtx.cancelled
    /\ streamOpen' = FALSE
    /\ \E e \in {execInPod(run, nodeFs, FALSE, "ok", "ok", streamCtx.cancelled) :
                    run \in {ImageTools(Sh(<<"cat /host">> \o opts.SourcePath, nodeFs),
                                        opts.Image)}} :
         /\ tried' = tried \o [i \in 1..Len(e.tried) |->
                                 [exec |-> Len(reqs),
                                  transport |-> e.tried[i].transport,
                                  outcome |-> e.tried[i].outcome]]
         /\ Return(<< >>, Wrap("failed to read file from node", e.err))
    /\ UNCHANGED <<args, opts, podName, ctxCancelled, now, deadline, pod, content,
                   reqs, delOutcome, toolResult, localFs, nodeFs, cluster,
                   createdPod, gate, prev, others>>

\* a listing of the path in the sandbox container itself
listCmdNoMount(path) == <<"ls -la ">> \o path

\* fmt.Sprintf("ls -la /host%s", path)
listCmd(path) == <<"ls -la /host">> \o path

\* nodeFilesList
ListDir(streams) ==
    /\ pc = "Executing" /\ step = "list"
    /\ \E e \in ExecResults(listCmd(opts.SourcePath), streams) :
         /\ Exec(e)
         /\ IF e.err # << >>
            THEN Return(<< >>, Wrap("failed to list directory", e.err))
            ELSE Return(e.out, << >>)
    /\ UNCHANGED <<args, opts, podName, ctxCancelled, now, deadline, pod, content,
                   delOutcome, toolResult, localFs, cluster,
                   createdPod, gate, prev, others, streamOpen>>

\* how a pods.Delete can end
DeleteOutcomes == {"ok", "error", "timeout"}

\* a deferred delete whose failure replaces the result of the call
AfterDeletePromotesError(r, o) ==
    IF o = "ok" THEN r
    ELSE [result |-> << >>, err |-> Wrap("failed to delete pod", <<o>>)]

\* _ = pods.Delete(deleteCtx, ...): what NodesFiles returns when it had r to
\* return and the deferred delete ended with o
AfterDelete(r, o) == r

\* the deferred function of NodesFiles, then the ending of the handler
Teardown ==
    /\ pc = "TearingDown"
    /\ reqs' = Append(reqs, Req("delete", deleteCtx))
    /\ \E o \in DeleteOutcomes, gone \in BOOLEAN :
         /\ deleteCtx.cancelled => o = "error"
         /\ delOutcome' = o
         /\ now' = IF o = "timeout" THEN now + deleteCtx.timeout ELSE now
         /\ cluster' = IF o = "ok" \/ (o = "timeout" /\ gone)
                       THEN cluster \ {podName} ELSE cluster
         /\ ret' = AfterDelete(ret, o)
    /\ toolResult' = HandlerResult(ret')
    /\ pc' = IF ret'.err = << >> THEN "Succeeded" ELSE "Failed"
    /\ UNCHANGED <<step, args, opts, podName, ctxCancelled, deadline, pod,
                   content, tried, localFs, nodeFs,
                   createdPod, gate, prev, others, streamOpen>>

\* the caller cancels the context of the call, or its deadline passes
CancelCtx ==
    /\ pc \notin {"Succeeded", "Failed"}
    /\ ~ctxCancelled
    /\ ctxCancelled' = TRUE
    /\ UNCHANGED <<pc, step, args, opts, podName, now, deadline, pod, content,
                   reqs, tried, ret, delOutcome, toolResult, localFs, nodeFs,
                   cluster,
                   createdPod, gate, prev, others, streamOpen>>

\* one step of a call whose pod-status reads take a time in durations, whose
\* pod name ends in one of names and whose transports end in streams
NextWith(durations, names, streams) ==
    \/ nodeFiles(names)
    \/ Create
    \/ waitForPodReady(durations)
    \/ Dispatch
    \/ PutMkdir(streams)
    \/ PutWrite(streams)
    \/ GetFile(streams)
    \/ ListDir(streams)
    \/ Teardown
    \/ CancelCtx

(***************************************************************************)
(* Spec: one call with any arguments, on a cluster whose status reads are  *)
(* slow, so that the readiness deadline passes after a few reads.          *)
(***************************************************************************)
Init == InitWith(ValidArgs \cup BadArgs, {LocalContent})

Next == NextWith({SlowGet}, RandStrings, StreamOutcomes)

Spec == Init /\ [][Next]_vars

(***************************************************************************)
(* PollSpec: one call on one source and destination, on a cluster whose    *)
(* status reads are fast or slow, so that the readiness loop runs its full *)
(* number of iterations; a stream is established over WebSocket or fails.  *)
(* FairPollSpec adds that a call that can take a step eventually takes it: *)
(* time advances, and every cluster API call, remote stream and local I/O  *)
(* operation returns.                                                      *)
(***************************************************************************)
PollArgs ==
    {a \in ValidArgs : /\ a.operation # Str(<<"invalid">>)
                       /\ a.source_path = Str(EtcF)
                       /\ a.dest_path = Str(TmpD)}

PollInit == InitWith(PollArgs, {LocalContent})

PollNext == NextWith(GetDurations, {"abcde"}, {"ok", "OtherError"})

PollSpec == PollInit /\ [][PollNext]_vars

FairPollSpec == PollSpec /\ WF_vars(PollNext)

(***************************************************************************)
(* ExecSpec: one call of each operation, in a sandbox of each image, on    *)
(* a file, on a missing path and on an endless device; the transports end  *)
(* in every outcome.  FairExecSpec adds that the call takes the steps it   *)
(* can take; whether the caller ever cancels is left open, and a stream    *)
(* that is open on a command that never ends stays open until then.        *)
(***************************************************************************)
ExecArgs ==
    [node_name : {Str(<<"node1">>)},
     operation : {Str(<<"put">>), Str(<<"get">>), Str(<<"list">>)},
     source_path : {Str(EtcF), Str(NoSuch), Str(DevZero)},
     dest_path : {Absent, Str(TmpD)},
     namespace : {Absent},
     image : {Absent, Str(<<"chatty">>), Str(<<"errout">>)},
     privileged : {Absent}]

ExecInit == InitWith(ExecArgs, {LocalContent})

\* the steps of the call itself
ExecStep ==
    \/ nodeFiles({"abcde"})
    \/ Create
    \/ waitForPodReady({SlowGet})
    \/ Dispatch
    \/ PutMkdir(StreamOutcomes)
    \/ PutWrite(StreamOutcomes)
    \/ GetFile(StreamOutcomes)
    \/ ListDir(StreamOutcomes)
    \/ StreamBlocks
    \/ StreamAborted
    \/ Teardown

ExecNext == ExecStep \/ CancelCtx

ExecSpec == ExecInit /\ [][ExecNext]_vars

FairExecSpec == ExecSpec /\ WF_vars(ExecStep)

(***************************************************************************)
(* FileSpec: one call of each operation on a file and on a missing path,   *)
(* with no destination, a destination in the working directory, one under  *)
(* the root, one in a directory, one in a directory of a directory, and    *)
(* one that is a file that exists.                                         *)
(***************************************************************************)
\* a destination in the working directory, and one two directories deep
RelD == <<"d">>
DeepD == <<"/", "tmp", "/", "a", "/", "d">>

FileArgs ==
    [node_name : {Str(<<"node1">>)},
     operation : {Str(<<"put">>), Str(<<"get">>), Str(<<"list">>)},
     source_path : {Str(EtcF), Str(NoSuch)},
     dest_path : {Absent, Str(RelD), Str(RootD), Str(TmpD), Str(DeepD), Str(EtcF)},
     namespace : {Absent},
     image : {Absent},
     privileged : {Absent}]

FileInit == InitWith(FileArgs, {LocalContent})

FileNext == NextWith({SlowGet}, {"abcde"}, {"ok", "OtherError"})

FileSpec == FileInit /\ [][FileNext]_vars

(***************************************************************************)
(* RTSpec: a caller puts the local file /etc/f, of any content over the    *)
(* alphabet, to a node path D and, when the put succeeded, gets D back     *)
(* into a local file.  The node file system outlives the sandbox.          *)
(***************************************************************************)
\* where the caller has the second call write the copy
LocalCopy == <<"/", "tmp", "/", "copy">>

PutArgs ==
    {a \in ValidArgs : /\ a.operation = Str(<<"put">>)
                       /\ a.source_path = Str(EtcF)
                       /\ a.dest_path \in {Str(TmpD), Str(RootD)}}

\* the caller's second call: get of the path the first call put to
NewCall ==
    /\ pc = "Succeeded"
    /\ prev.pc = "none"
    /\ args.operation = Str(<<"put">>)
    /\ prev' = [args |-> args, pc |-> pc]
    /\ \E dest \in {Absent, Str(LocalCopy)} :
         args' = [args EXCEPT !.operation = Str(<<"get">>),
                              !.source_path = args.dest_path,
                              !.dest_path = dest]
    /\ pc' = "Pending"
    /\ step' = "none"
    /\ opts' = NoOpts
    /\ podName' = << >>
    /\ ctxCancelled' = FALSE
    /\ now' = 0
    /\ deadline' = 0
    /\ pod' = NoPod
    /\ content' = << >>
    /\ reqs' = << >>
    /\ tried' = << >>
    /\ ret' = NoRet
    /\ delOutcome' = "none"
    /\ toolResult' = NoResult
    /\ createdPod' = FALSE
    /\ gate' = "none"
    /\ UNCHANGED <<localFs, nodeFs, cluster, streamOpen, others>>

RTInit == InitWith(PutArgs, StringsUpTo(MaxLen))

RTNext ==
    \/ nodeFiles(RandStrings)
    \/ Create
    \/ waitForPodReady({SlowGet})
    \/ Dispatch
    \/ PutMkdir({"ok", "OtherError"})
    \/ PutWrite({"ok", "OtherError"})
    \/ GetFile({"ok", "OtherError"})
    \/ Teardown
    \/ CancelCtx
    \/ NewCall

RTSpec == RTInit /\ [][RTNext]_vars

(***************************************************************************)
(* PayloadSpec: one put, directly under the root, of every content over    *)
(* letters, single quotes, newlines and the word EOF: the contents whose   *)
(* only shell-special characters are single quotes.                        *)
(***************************************************************************)
\* "EOF" stands for the three letters E, O, F
PayloadAlphabet == {"a", "'", "\n", "EOF"}

PayloadsUpTo(n) == UNION {[1..k -> PayloadAlphabet] : k \in 0..n}

PayloadArgs ==
    {a \in ValidArgs : /\ a.operation = Str(<<"put">>)
                       /\ a.source_path = Str(EtcF)
                       /\ a.dest_path = Str(RootD)}

PayloadInit == InitWith(PayloadArgs, PayloadsUpTo(MaxLen))

PayloadNext ==
    \/ nodeFiles({"abcde"})
    \/ Create
    \/ waitForPodReady({SlowGet})
    \/ Dispatch
    \/ PutWrite({"ok", "OtherError"})
    \/ Teardown
    \/ CancelCtx

PayloadSpec == PayloadInit /\ [][PayloadNext]_vars

(***************************************************************************)
(* ArgSpec: one list and one put on each of two nodes, with each optional  *)
(* argument absent, empty, set, or of the wrong type.                      *)
(***************************************************************************)
ArgArgs ==
    [node_name : {Str(<<"node1">>), Str(<<"node2">>)},
     operation : {Str(<<"list">>), Str(<<"put">>)},
     source_path : {Str(EtcF)},
     dest_path : {Str(TmpD)},
     namespace : {Absent, Str(<< >>), Str(<<"ns1">>), Num},
     image : {Absent, Str(<< >>), Str(<<"alpine">>)},
     privileged : {Absent, Bool(TRUE), Bool(FALSE), Str(<<"false">>)}]

ArgInit == InitWith(ArgArgs, {LocalContent})

ArgNext ==
    \/ nodeFiles({"abcde"})
    \/ Create
    \/ waitForPodReady({SlowGet})
    \/ Dispatch
    \/ PutMkdir({"ok", "OtherError"})
    \/ PutWrite({"ok", "OtherError"})
    \/ ListDir({"ok", "OtherError"})
    \/ Teardown
    \/ CancelCtx

ArgSpec == ArgInit /\ [][ArgNext]_vars

(***************************************************************************)
(* ConcSpec: one list call, and the sandboxes of the other calls of        *)
(* NodesFiles that run at the same time in the same namespace.  The        *)
(* cluster is all the calls share: another call is seen by this one as a   *)
(* pod it creates under the name it drew, and deletes when it returns.     *)
(***************************************************************************)
ConcArgs ==
    {a \in ValidArgs : /\ a.operation = Str(<<"list">>)
                       /\ a.source_path = Str(EtcF)
                       /\ a.dest_path = Absent}

ConcInit == InitWith(ConcArgs, {LocalContent})

\* another call, while this one runs, creates its sandbox under the name n
\* it drew: pods.Create, which the cluster refuses for a name that exists,
\* and then that call returns without a delete
OtherCreate ==
    /\ ~(pc \in {"Succeeded", "Failed"})
    /\ \E n \in PodNames :
         /\ others[n] = "none"
         /\ IF n \in cluster
            THEN /\ others' = [others EXCEPT ![n] = "refused"]
                 /\ UNCHANGED cluster
            ELSE /\ others' = [others EXCEPT ![n] = "live"]
                 /\ cluster' = cluster \cup {n}
    /\ UNCHANGED <<pc, step, args, opts, podName, ctxCancelled, now, deadline, pod,
                   content, reqs, tried, ret, delOutcome, toolResult, localFs,
                   nodeFs, createdPod, gate, prev, streamOpen>>

\* the deferred delete of another call whose create succeeded:
\* pods.Delete(deleteCtx, podName, ...), which deletes the pod of that name
OtherDelete ==
    /\ \E n \in PodNames :
         /\ others[n] = "live"
         /\ others' = [others EXCEPT ![n] = "deleted"]
         /\ cluster' = cluster \ {n}
    /\ UNCHANGED <<pc, step, args, opts, podName, ctxCancelled, now, deadline, pod,
                   content, reqs, tried, ret, delOutcome, toolResult, localFs,
                   nodeFs, createdPod, gate, prev, streamOpen>>

ConcNext ==
    \/ nodeFiles(RandStrings)
    \/ Create
    \/ waitForPodReady({SlowGet})
    \/ Dispatch
    \/ ListDir({"ok", "OtherError"})
    \/ Teardown
    \/ CancelCtx
    \/ OtherCreate
    \/ OtherDelete

ConcSpec == ConcInit /\ [][ConcNext]_vars

(***************************************************************************)
(* LogSpec: one call of the tool nodes_log.  The call uses the variables   *)
(* pc, args, reqs, ret and toolResult; it has no sandbox.                  *)
(***************************************************************************)
\* a JSON number with the value n
Number(n) == [t |-> "number", s |-> << >>, b |-> FALSE, n |-> n]

LogArgs ==
    [name : {Absent, Str(<< >>), Str(<<"node1">>), Str(<<"node2">>), Num},
     query : {Absent, Str(<< >>), Str(<<"kubelet">>), Num},
     tailLines : {Absent, Number(0), Number(100), Str(<<"ten">>)}]

LogInit == InitWith(LogArgs, {LocalContent})

\* the bodies the kubelet can answer the log query with
LogBodies == {<< >>, <<"line1">>, <<"line1", "\n", "line2">>}

\* api.ParseInt64(tailLines): the number of a JSON number, an error otherwise
ParseInt64(v) ==
    IF v.t = "number" THEN [n |-> v.n, err |-> << >>]
    ELSE [n |-> 0, err |-> <<"failed to parse">>]

\* tailInt: 0 when tailLines is nil
tailInt == IF args.tailLines = Absent THEN 0 ELSE ParseInt64(args.tailLines).n

\* the handler nodesLog ends with the tool result r and a nil Go error
LogEnds(r) ==
    /\ toolResult' = Returns(r)
    /\ pc' = IF r.isError THEN "Failed" ELSE "Succeeded"

\* nodesLog up to its call of NodesLog: the checks of the arguments
nodesLog ==
    /\ pc = "Pending"
    /\ IF args.name.t # "string" \/ args.name.s = << >>
       THEN LogEnds(NewToolCallResult(<< >>,
                        <<"failed to get node log, missing argument name">>))
       ELSE IF args.query.t # "string" \/ args.query.s = << >>
       THEN LogEnds(NewToolCallResult(<< >>,
                        <<"failed to get node log, missing argument query">>))
       ELSE IF args.tailLines # Absent /\ ParseInt64(args.tailLines).err # << >>
       THEN LogEnds(NewToolCallResult(<< >>,
                        Wrap("failed to parse tailLines parameter",
                             ParseInt64(args.tailLines).err)))
       ELSE /\ pc' = "NodeGetting"
            /\ UNCHANGED toolResult
    /\ UNCHANGED <<step, args, opts, podName, ctxCancelled, now, deadline, pod,
                   content, reqs, tried, ret, delOutcome, localFs, nodeFs, cluster,
                   createdPod, gate, prev, streamOpen, others>>

\* a handler that returns the log as it is, empty or not
LogTextRaw(name, log) == log

\* else if ret == "" { ret = fmt.Sprintf("The node %s has not logged ...") }
LogText(name, log) ==
    IF log = << >>
    THEN <<"The node ">> \o name
             \o <<" has not logged any message yet or the log file is empty">>
    ELSE log

\* nodesLog after NodesLog returned r
LogHandlerResult(r) ==
    IF r.err # << >>
    THEN NewToolCallResult(<< >>, <<"failed to get node log for ">> \o args.name.s
                                      \o <<": ">> \o r.err)
    ELSE NewToolCallResult(LogText(args.name.s, r.result), << >>)

\* NodesLog returns (result, err) to the handler, which ends
LogReturn(result, err) ==
    /\ ret' = [result |-> result, err |-> err]
    /\ LogEnds(LogHandlerResult([result |-> result, err |-> err]))

\* NodesLog: Nodes().Get(ctx, name, ...)
NodesLogGet ==
    /\ pc = "NodeGetting"
    /\ reqs' = Append(reqs, [op |-> "nodeGet", ns |-> << >>, name |-> args.name.s,
                             ctx |-> callerCtx, pod |-> NoManifest, cmd |-> << >>,
                             container |-> ""])
    /\ \E err \in {<< >>, <<"nodes not found">>} :
         IF err # << >> \/ ctxCancelled
         THEN LogReturn(<< >>, <<"failed to get node ">> \o args.name.s \o <<": ">>
                                   \o (IF err # << >> THEN err ELSE <<"context canceled">>))
         ELSE /\ pc' = "LogFetching"
              /\ UNCHANGED <<ret, toolResult>>
    /\ UNCHANGED <<step, args, opts, podName, ctxCancelled, now, deadline, pod,
                   content, tried, delOutcome, localFs, nodeFs, cluster,
                   createdPod, gate, prev, streamOpen, others>>

\* the parameters of the log request: tailLines only when it is positive
LogParams ==
    <<"query=">> \o args.query.s
        \o (IF tailInt > 0 THEN <<"tailLines=", tailInt>> ELSE << >>)

\* NodesLog: the GET of /api/v1/nodes/<name>/proxy/logs and the reading of
\* its body
NodesLogProxy ==
    /\ pc = "LogFetching"
    /\ reqs' = Append(reqs, [op |-> "proxyLogs", ns |-> << >>, name |-> args.name.s,
                             ctx |-> callerCtx, pod |-> NoManifest, cmd |-> LogParams,
                             container |-> ""])
    /\ \E outcome \in {"ok", "doError", "rawError"}, body \in LogBodies :
         IF outcome = "doError" \/ ctxCancelled
         THEN LogReturn(<< >>, Wrap("failed to get node logs", <<"request failed">>))
         ELSE IF outcome = "rawError"
         THEN LogReturn(<< >>, Wrap("failed to read node log response", <<"read failed">>))
         ELSE LogReturn(body, << >>)
    /\ UNCHANGED <<step, args, opts, podName, ctxCancelled, now, deadline, pod,
                   content, tried, delOutcome, localFs, nodeFs, cluster,
                   createdPod, gate, prev, streamOpen, others>>

LogNext ==
    \/ nodesLog
    \/ NodesLogGet
    \/ NodesLogProxy
    \/ CancelCtx

LogSpec == LogInit /\ [][LogNext]_vars

(***************************************************************************)
(* Properties.                                                             *)
(***************************************************************************)
Done == pc \in {"Succeeded", "Failed"}

\* the number of cluster API calls of kind op that the call has issued
NumReq(op) == Cardinality({i \in 1..Len(reqs) : reqs[i].op = op})

\* the token tok occurs in the text
Contains(text, tok) == \E i \in 1..Len(text) : text[i] = tok

\* the destination nodeFilesGet writes to
GetDest == IF opts.DestPath = << >> THEN Base(opts.SourcePath) ELSE opts.DestPath

\* C5 (as claimed): Put of the local content to node path D followed by Get
\* of D leaves a local copy identical to the content that was put
RoundTrip ==
    (/\ pc = "Succeeded"
     /\ prev.pc = "Succeeded"
     /\ opts.Operation = <<"get">>)
    => /\ GetDest \in DOMAIN localFs.files
       /\ localFs.files[GetDest] = localFs.files[EtcF]

\* C1: never more than one delete; a call that ended after a successful
\* create has issued exactly one, for the pod it created
ExactlyOneDelete ==
    /\ NumReq("delete") <= 1
    /\ (Done /\ createdPod) => NumReq("delete") = 1
    /\ \A i \in 1..Len(reqs) : reqs[i].op = "delete" => reqs[i].name = podName

\* a call that failed in its local write, after the create, has deleted once
DeletedAfterLocalFailure ==
    /\ Done /\ createdPod
    /\ Contains(ret.err, "failed to write local file")
    /\ NumReq("delete") = 1

\* C2: a call the Access Gate denied has failed with the rejected kind in its
\* error and has issued no cluster API call
DeniedIssuesNoRequest ==
    (gate = "denied" /\ ~createdPod) =>
        /\ pc = "Failed"
        /\ toolResult.isError
        /\ Contains(toolResult.text, "resource not allowed: /v1, Kind=Pod")
        /\ reqs = << >>

\* a denied call that has ended
DeniedCallFailed ==
    /\ gate = "denied" /\ ~createdPod
    /\ pc = "Failed"
    /\ reqs = << >>

\* C3 (as claimed): a call whose operation is not list, get or put issues no
\* pod create
UnknownOperationCreatesNoPod ==
    (/\ args.operation.t = "string"
     /\ args.operation.s \notin {<< >>, <<"put">>, <<"get">>, <<"list">>})
    => NumReq("create") = 0

TimeoutErr ==
    <<"pod failed to become ready", ": ", "timeout waiting for pod to be ready">>

\* a status that is neither ready nor failed
NotReady(p) ==
    /\ p \in PodStatuses
    /\ ~(p.phase = "Running" /\ p.ready)
    /\ p.phase # "Failed"

\* C4: a call whose reads never saw the pod ready (nor failed, nor an error)
\* ends only by the timeout, after the deadline, with no exec and one delete
ReadinessTimeout ==
    /\ (pc \in {"TearingDown", "Succeeded", "Failed"} /\ createdPod /\ NotReady(pod))
           => ret.err = TimeoutErr
    /\ ret.err = TimeoutErr =>
           /\ now > deadline
           /\ NumReq("exec") = 0
           /\ pc \in {"TearingDown", "Failed"}
    /\ (Done /\ ret.err = TimeoutErr) =>
           /\ NumReq("delete") = 1
           /\ toolResult.isError
           /\ Contains(toolResult.text, "timeout waiting for pod to be ready")

\* the readiness loop ran all its iterations and the call timed out
TimedOutAfterFullLoop ==
    /\ Done
    /\ ret.err = TimeoutErr
    /\ NumReq("get") = 61
    /\ NumReq("delete") = 1

\* C6: the delete is made with a live context of its own, with a 30-second
\* timeout, also when the caller's context is cancelled at the exit
TeardownOwnContext ==
    /\ \A i \in 1..Len(reqs) :
         reqs[i].op = "delete" =>
             reqs[i].ctx = [kind |-> "background", timeout |-> 30, cancelled |-> FALSE]
    /\ (Done /\ createdPod /\ ctxCancelled) => NumReq("delete") = 1

\* a cancelled call whose pod the delete removed from the cluster
DeletedAfterCancel ==
    /\ Done /\ createdPod /\ ctxCancelled
    /\ delOutcome = "ok"
    /\ podName \notin cluster

\* C7: the deferred delete, however it ends, leaves the result of the call
\* as it was, and the handler reports that result
TeardownNeverPromoted ==
    /\ [][(pc = "TearingDown" /\ pc' # pc) =>
             /\ ret' = ret
             /\ toolResult' = HandlerResult(ret)
             /\ pc' = IF ret.err = << >> THEN "Succeeded" ELSE "Failed"]_vars
    /\ []((Done /\ createdPod /\ delOutcome # "ok") => toolResult = HandlerResult(ret))

\* a call that succeeded although its delete timed out
SucceededDespiteDeleteTimeout ==
    /\ pc = "Succeeded"
    /\ delOutcome = "timeout"
    /\ ~toolResult.isError
    /\ toolResult.text = ret.result
    /\ ret.result # << >>

Rank(p) ==
    CASE p = "Pending" -> 0
      [] p = "SandboxCreating" -> 1
      [] p = "SandboxWaitingReady" -> 2
      [] p = "Executing" -> 3
      [] p = "TearingDown" -> 4
      [] p \in {"Succeeded", "Failed"} -> 5

\* the stage in which a cluster API call of kind op is made
StageOf(op) ==
    CASE op = "create" -> "SandboxCreating"
      [] op = "get" -> "SandboxWaitingReady"
      [] op = "exec" -> "Executing"
      [] op = "delete" -> "TearingDown"

\* C8: the stages only move forward, the terminal stages are final, each
\* cluster API call is made in its stage, the deadline is set once, a call
\* that created a pod ends only from TearingDown, after its delete
LinearStateMachine ==
    /\ [][/\ Rank(pc') >= Rank(pc)
          /\ Done => pc' = pc
          /\ (pc' \in {"Succeeded", "Failed"} /\ ~Done /\ createdPod')
                 => pc = "TearingDown"
          /\ reqs' # reqs =>
                 /\ Len(reqs') = Len(reqs) + 1
                 /\ SubSeq(reqs', 1, Len(reqs)) = reqs
                 /\ pc = StageOf(reqs'[Len(reqs')].op)
          /\ deadline' # deadline => pc = "SandboxCreating"]_vars
    /\ [](/\ NumReq("create") <= 1
          /\ (Done /\ createdPod) =>
                 /\ delOutcome # "none"
                 /\ reqs[Len(reqs)].op = "delete")

\* a call that failed in Executing and went through TearingDown
FailedExecTornDown ==
    /\ pc = "Failed"
    /\ createdPod
    /\ NumReq("exec") = 2
    /\ reqs[Len(reqs)].op = "delete"

\* C9: every call ends
CallTerminates == <>Done

\* a call that became ready at the last read the deadline allows, and ended
EndedAfterLastRead ==
    /\ Done
    /\ NumReq("get") = 61
    /\ pod = [phase |-> "Running", ready |-> TRUE]

\* the transport attempts of the k-th cluster API call
AttemptsOf(k) == SelectSeq(tried, LAMBDA t : t.exec = k)

\* C10: an exec tries WebSocket first, and SPDY second exactly when the
\* WebSocket stream failed with an upgrade failure or an HTTPS-proxy error
TransportSelection ==
    \A k \in 1..Len(reqs) :
        reqs[k].op = "exec" =>
            LET a == AttemptsOf(k)
            IN  /\ Len(a) <= 2
                /\ Len(a) >= 1 => a[1].transport = "websocket"
                /\ Len(a) = 2 <=>
                       (/\ Len(a) >= 1
                        /\ a[1].outcome \in {"UpgradeFailure", "HTTPSProxyError"})
                /\ Len(a) = 2 => a[2].transport = "spdy"
                /\ (Len(a) >= 1 /\ a[1].outcome = "ok") => Len(a) = 1

\* a call that succeeded over SPDY after the WebSocket upgrade failed
SucceededOverSPDY ==
    /\ pc = "Succeeded"
    /\ \E k \in 1..Len(reqs) :
         /\ reqs[k].op = "exec"
         /\ Len(AttemptsOf(k)) = 2
         /\ AttemptsOf(k)[1].outcome = "UpgradeFailure"
         /\ AttemptsOf(k)[2] = [exec |-> k, transport |-> "spdy", outcome |-> "ok"]

\* the prefixes the operations put before the error of an exec
ExecErrPrefixes ==
    {"failed to create destination directory", "failed to write file to node",
     "failed to read file from node", "failed to list directory"}

\* C11: an exec makes at most two attempts, WebSocket then SPDY; a WebSocket
\* failure that is neither an upgrade failure nor a proxy error is the only
\* attempt; an exec whose last attempt failed is the last exec of the call,
\* and its error is the error of the call: unchanged behind the prefix of the
\* operation when no stream was established
TerminalExecFailure ==
    \A k \in 1..Len(reqs) :
        reqs[k].op = "exec" =>
            LET a == AttemptsOf(k)
                last == a[Len(a)]
            IN  Len(a) >= 1 =>
                  /\ Len(a) <= 2
                  /\ a[1].transport = "websocket"
                  /\ Len(a) = 2 => a[2].transport = "spdy"
                  /\ a[1].outcome \notin {"ok", "UpgradeFailure", "HTTPSProxyError"}
                         => Len(a) = 1
                  /\ last.outcome # "ok" =>
                         /\ \A j \in (k + 1)..Len(reqs) : reqs[j].op = "delete"
                         /\ pc \in {"TearingDown", "Failed"}
                         /\ Contains(ret.err, last.outcome)
                         /\ ~Established(last.outcome) =>
                                \E prefix \in ExecErrPrefixes :
                                    ret.err = <<prefix, ": ", last.outcome>>

\* a call that failed because the SPDY fallback failed, after two attempts
FailedOnSPDYFallback ==
    /\ pc = "Failed"
    /\ NumReq("delete") = 1
    /\ \E k \in 1..Len(reqs) :
         /\ reqs[k].op = "exec"
         /\ Len(AttemptsOf(k)) = 2
         /\ AttemptsOf(k)[1].outcome = "HTTPSProxyError"
         /\ AttemptsOf(k)[2].outcome = "OtherError"
         /\ toolResult.text = <<"failed to perform node file operation", ": ",
                                "failed to list directory", ": ", "OtherError">>

\* the last command of the operation of the call
LastScript ==
    IF opts.Operation = <<"put">> THEN writeCmd(opts.DestPath, content)
    ELSE IF opts.Operation = <<"get">> THEN <<"cat /host">> \o opts.SourcePath
    ELSE <<"ls -la /host">> \o opts.SourcePath

\* what the last command of the operation wrote and how it exited (the three
\* commands leave the node as a second run of them finds it)
LastRun == ImageTools(Sh(LastScript, nodeFs), opts.Image)

\* the operation returned no error: all its commands ran to their end, and
\* the last one wrote nothing on standard output and some text on standard
\* error
OnlyStderr ==
    /\ pc \in {"TearingDown", "Succeeded"}
    /\ ret.err = << >>
    /\ LastRun.stdout = << >>
    /\ LastRun.stderr # << >>

\* C12 (as claimed): when a command of list, get or put wrote nothing on
\* standard output and some text on standard error, the result of the
\* operation is that text
StderrIsResult == OnlyStderr => ret.result = LastRun.stderr

\* C12 (amended): that text is the output of the exec: list returns it as
\* its result, get writes it to the local file and returns its message,
\* put returns its message
StderrIsExecOutput ==
    OnlyStderr =>
        IF opts.Operation = <<"list">> THEN ret.result = LastRun.stderr
        ELSE IF opts.Operation = <<"get">>
        THEN /\ localFs.files[GetDest] = LastRun.stderr
             /\ ret.result = <<"File successfully copied from node:">>
                                \o opts.SourcePath \o <<" to ">> \o GetDest
        ELSE ret.result = <<"File successfully copied from ">> \o opts.SourcePath
                             \o <<" to node:">> \o opts.DestPath

\* a list whose command wrote its listing on standard error only
ListReturnedStderr ==
    /\ pc = "Succeeded"
    /\ opts.Operation = <<"list">>
    /\ opts.Image = <<"errout">>
    /\ OnlyStderr
    /\ toolResult.text = <<"ls -la of ", "/host">> \o EtcF

\* the command whose exec failed, by the prefix of the error of the call
FailedScript ==
    IF ret.err[1] = "failed to create destination directory"
    THEN <<"mkdir -p /host">> \o Dir(opts.DestPath)
    ELSE LastScript

\* the call failed in an exec whose stream was attempted
ExecStreamFailed ==
    /\ pc \in {"TearingDown", "Failed"}
    /\ ret.err # << >>
    /\ ret.err[1] \in ExecErrPrefixes
    /\ tried # << >>
    /\ tried[Len(tried)].exec = Len(reqs) - (IF pc = "Failed" THEN 1 ELSE 0)

\* C13: when the stream of an exec fails, the error of the exec is the
\* captured standard error joined with the error of the stream, or the error
\* of the stream alone when nothing was captured there; the operation
\* returns no result and writes no local file, whatever was captured on
\* standard output
ExecErrorComposition ==
    ExecStreamFailed =>
        LET last == tried[Len(tried)]
            run == ImageTools(Sh(FailedScript, nodeFs), opts.Image)
            stderr == IF Established(last.outcome) THEN run.stderr ELSE << >>
            terr == IF last.outcome # "ok" THEN <<last.outcome>>
                    ELSE <<"command terminated with non-zero exit code">>
        IN  /\ ret.err = <<ret.err[1], ": ">> \o
                           (IF stderr # << >>
                            THEN <<"exec error: ">> \o stderr \o <<": ">> \o terr
                            ELSE terr)
            /\ ret.result = << >>
            /\ DOMAIN localFs.files = {EtcF}
            /\ pc = "Failed" =>
                   toolResult = [text |-> <<"failed to perform node file operation", ": ">>
                                              \o ret.err,
                                 isError |-> TRUE, goErr |-> << >>]

\* a get whose stream broke after the command wrote the content on standard
\* output and a warning on standard error
BrokenStreamWithStderr ==
    /\ pc = "Failed"
    /\ opts.Operation = <<"get">>
    /\ tried # << >>
    /\ tried[Len(tried)].outcome = "Broken"
    /\ ret.err = <<"failed to read file from node", ": ", "exec error: ", "warning",
                   ": ", "Broken">>
    /\ ret.result = << >>

\* the readiness wait of the call succeeded and its operation has returned
OperationRan ==
    /\ pc \in {"TearingDown", "Succeeded", "Failed"}
    /\ pod = [phase |-> "Running", ready |-> TRUE]

\* C14: every exec is the one exec of one command of the operation (put:
\* mkdir then write, get: cat, list: ls) and the command is not issued
\* again, neither while its stream is open nor after it returned; an exec
\* that returns an error ends the operation; a list and a get
\* that ran issued exactly one exec, a put at most two
OneExecPerCommand ==
    /\ [][(reqs' # reqs /\ reqs'[Len(reqs')].op = "exec") =>
             /\ pc = "Executing"
             /\ step \in {"mkdir", "write"} <=> opts.Operation = <<"put">>
             /\ step = "read" <=> opts.Operation = <<"get">>
             /\ step = "list" <=> opts.Operation = <<"list">>
             /\ IF streamOpen'
                THEN pc' = "Executing" /\ step' = step
                ELSE IF step = "mkdir" /\ ret'.err = << >>
                THEN pc' = "Executing" /\ step' = "write"
                ELSE pc' = "TearingDown" /\ step' = "none"
             /\ (step = "mkdir" /\ ret'.err # << >>)
                    => ret'.err[1] = "failed to create destination directory"]_vars
    /\ [][streamOpen =>
             /\ NumReq("exec")' = NumReq("exec")
             /\ streamOpen' \/ (pc' = "TearingDown" /\ ret'.err # << >>)]_vars
    /\ [](/\ NumReq("exec") <= (IF opts.Operation = <<"put">> THEN 2 ELSE 1)
          /\ OperationRan =>
                 /\ opts.Operation \in {<<"list">>, <<"get">>} => NumReq("exec") = 1
                 /\ (ret.err # << >> /\ ret.err[1] \in ExecErrPrefixes)
                        => reqs[Len(reqs) - (IF pc = "TearingDown" THEN 0 ELSE 1)].op
                               = "exec")

\* a put whose mkdir succeeded and whose write failed: two execs, no third
PutFailedInSecondExec ==
    /\ pc = "Failed"
    /\ opts.Operation = <<"put">>
    /\ NumReq("exec") = 2
    /\ ret.err # << >>
    /\ ret.err[1] = "failed to write file to node"
    /\ NumReq("delete") = 1

\* C15: the call is past its readiness wait without an error of the wait
\* only when the last poll saw the pod Running with a true Ready condition;
\* a poll that sees any other status but Failed leaves the call waiting, with
\* the clock at the end of the read plus the 2-second sleep
ReadyOnlyWhenRunningAndReady ==
    /\ [][(pc = "SandboxWaitingReady" /\ reqs' # reqs /\ pod' \in PodStatuses) =>
             IF pod'.phase = "Running" /\ pod'.ready
             THEN pc' = "Executing"
             ELSE IF pod'.phase = "Failed"
             THEN pc' = "TearingDown"
             ELSE /\ pc' = "SandboxWaitingReady"
                  /\ ret' = ret
                  /\ \E d \in GetDurations : now' = now + d + 2]_vars
    /\ []((pc = "Executing" \/ NumReq("exec") > 0)
             => pod = [phase |-> "Running", ready |-> TRUE])

\* a first poll saw the pod Running without a true Ready condition, and the
\* call is waiting, 2 seconds later
StillWaitingOnUnreadyPod ==
    /\ pc = "SandboxWaitingReady"
    /\ pod = [phase |-> "Running", ready |-> FALSE]
    /\ NumReq("get") = 1
    /\ now = 2

PodFailedErr == <<"pod failed to become ready", ": ", "pod failed">>

\* C16: a poll that sees the pod in phase Failed ends the wait at that poll,
\* without a sleep, with the pod-failed error; the call issues no exec and
\* no further read, deletes the pod and fails
PodFailedEndsWait ==
    /\ [][/\ (pc = "SandboxWaitingReady" /\ reqs' # reqs /\ pod'.phase = "Failed") =>
                /\ pc' = "TearingDown"
                /\ ret' = [result |-> << >>, err |-> PodFailedErr]
                /\ now' - now \in GetDurations
          /\ ret.err = PodFailedErr =>
                /\ NumReq("get")' = NumReq("get")
                /\ reqs' # reqs => reqs'[Len(reqs')].op = "delete"]_vars
    /\ [](ret.err = PodFailedErr =>
             /\ pod.phase = "Failed"
             /\ NumReq("exec") = 0
             /\ Done => /\ pc = "Failed"
                         /\ NumReq("delete") = 1
                         /\ Contains(toolResult.text, "pod failed"))

\* a call that failed at its third poll, long before the deadline, on a pod
\* in phase Failed
FailedOnFailedPod ==
    /\ pc = "Failed"
    /\ ret.err = PodFailedErr
    /\ NumReq("get") = 3
    /\ now = 4
    /\ NumReq("delete") = 1

GetErr == <<"pod failed to become ready", ": ", "get error">>

\* C17: the first status read that returns an error ends the wait with that
\* error; the call issues no further read and no exec, deletes the pod and
\* fails
GetErrorIsFatal ==
    /\ [][/\ (pc = "SandboxWaitingReady" /\ reqs' # reqs /\ pod' = NoPod) =>
                /\ pc' = "TearingDown"
                /\ ret' = [result |-> << >>, err |-> GetErr]
          /\ ret.err = GetErr =>
                /\ NumReq("get")' = NumReq("get")
                /\ reqs' # reqs => reqs'[Len(reqs')].op = "delete"]_vars
    /\ [](ret.err = GetErr =>
             /\ pod = NoPod
             /\ NumReq("exec") = 0
             /\ Done => /\ pc = "Failed"
                         /\ NumReq("delete") = 1
                         /\ Contains(toolResult.text, "get error"))

\* a call whose second status read failed, in a context that was live
FailedOnGetError ==
    /\ pc = "Failed"
    /\ ~ctxCancelled
    /\ ret.err = GetErr
    /\ NumReq("get") = 2
    /\ NumReq("delete") = 1

\* the status reads the call issued with a context that was cancelled
CancelledGets ==
    {i \in 1..Len(reqs) : reqs[i].op = "get" /\ reqs[i].ctx.cancelled}

\* C18: once the context of the caller is cancelled, the next step of the
\* readiness wait ends the wait with an error, without a sleep; the call
\* issues at most one status read in the cancelled context, no exec, deletes
\* the pod and fails
WaitObservesCancellation ==
    /\ [][(pc = "SandboxWaitingReady" /\ ctxCancelled
               /\ <<pc, now, reqs, ret>>' # <<pc, now, reqs, ret>>) =>
             /\ pc' = "TearingDown"
             /\ ret'.err \in {GetErr, TimeoutErr}
             /\ now' - now \in GetDurations]_vars
    /\ [](/\ Cardinality(CancelledGets) <= 1
          /\ CancelledGets # {} =>
                 /\ pc \in {"TearingDown", "Failed"}
                 /\ ret.err = GetErr
                 /\ NumReq("exec") = 0
                 /\ Done => NumReq("delete") = 1)

\* a call that was cancelled after its first poll and failed at its second,
\* two seconds into the wait
CancelledInWait ==
    /\ pc = "Failed"
    /\ ctxCancelled
    /\ NumReq("get") = 2
    /\ ~reqs[2].ctx.cancelled
    /\ reqs[3].ctx.cancelled
    /\ now = 2
    /\ deadline = 120
    /\ ret.err = GetErr
    /\ NumReq("delete") = 1

\* C19: a stream that is open when the context of the caller is cancelled
\* is aborted: the exec returns an error although its command has not
\* ended, the operation fails, and the call ends failed with its pod
\* deleted; an exec issued in a cancelled context returns an error as well
ExecHonoursCancellation ==
    /\ [][(streamOpen /\ ~streamOpen') =>
             /\ ctxCancelled
             /\ pc' = "TearingDown"
             /\ ret'.result = << >>
             /\ ret'.err # << >>
             /\ localFs' = localFs]_vars
    /\ [](\A k \in 1..Len(reqs) :
             (reqs[k].op = "exec" /\ reqs[k].ctx.cancelled) =>
                 /\ pc \in {"TearingDown", "Failed"}
                 /\ ret.err # << >>
                 /\ Done => NumReq("delete") = 1)
    /\ ((streamOpen /\ ctxCancelled) ~> (pc = "Failed" /\ NumReq("delete") = 1))

\* a get of the endless device whose stream was opened in a live context,
\* and which failed after the cancellation, its pod deleted
AbortedEndlessRead ==
    /\ pc = "Failed"
    /\ ~streamOpen
    /\ ctxCancelled
    /\ opts.SourcePath = DevZero
    /\ NumReq("exec") = 1
    /\ \E k \in 1..Len(reqs) : reqs[k].op = "exec" /\ ~reqs[k].ctx.cancelled
    /\ ret.err = <<"failed to read file from node", ": ", "OtherError">>
    /\ delOutcome = "ok"

\* the local file system before the call
LocalFsBefore ==
    [files |-> (EtcF :> LocalContent), dirs |-> {<<"/">>, <<"/", "etc">>, <<".">>}]

\* C20: a list issues at most one exec, of ls -la on /host followed by the
\* path; when that command ran to its end on a path that exists, the result
\* of the call is the text the command produced, as it produced it; a list
\* leaves the local file system as it was
ListReturnsRawListing ==
    opts.Operation = <<"list">> =>
        /\ NumReq("exec") <= 1
        /\ localFs = LocalFsBefore
        /\ (pc \in {"TearingDown", "Succeeded"} /\ ret.err = << >>) =>
               /\ NumReq("exec") = 1
               /\ ret.result = <<"ls -la of ", "/host">> \o opts.SourcePath
               /\ pc = "Succeeded" =>
                      toolResult = [text |-> <<"ls -la of ", "/host">> \o opts.SourcePath,
                                    isError |-> FALSE, goErr |-> << >>]
        /\ (/\ OperationRan
            /\ opts.SourcePath = EtcF
            /\ tried # << >>
            /\ tried[Len(tried)].outcome = "ok") => ret.err = << >>

\* a list of /etc/f that succeeded
ListedEtcF ==
    /\ pc = "Succeeded"
    /\ opts.Operation = <<"list">>
    /\ opts.Image = <<"busybox">>
    /\ NumReq("exec") = 1
    /\ toolResult.text = <<"ls -la of ", "/host", "/", "etc", "/", "f">>
    /\ localFs = LocalFsBefore

\* the content of the node file /etc/f
NodeContent == <<"a", "\n">>

\* the local directories MkdirAll has to make for each destination
MissingParents(dest) ==
    IF dest = TmpD THEN {<<"/", "tmp">>}
    ELSE IF dest = DeepD THEN {<<"/", "tmp">>, <<"/", "tmp", "/", "a">>}
    ELSE {}

\* C21: a get of /etc/f that returned no error has written the content of
\* the node file: with no destination path to the local file f of the
\* working directory, making no directory; with a destination path to
\* that path, having made its missing parent directories; when only the
\* local write failed, the directories are there and the file is not
GetDestination ==
    (opts.Operation = <<"get">> /\ pc \in {"TearingDown", "Succeeded", "Failed"}) =>
        /\ ret.err = << >> =>
               IF opts.DestPath = << >>
               THEN /\ opts.SourcePath = EtcF
                    /\ localFs.files = (<<"f">> :> NodeContent) @@ (EtcF :> LocalContent)
                    /\ localFs.dirs = LocalFsBefore.dirs
               ELSE /\ localFs.files = (opts.DestPath :> NodeContent)
                                           @@ (EtcF :> LocalContent)
                    /\ localFs.dirs = LocalFsBefore.dirs \cup MissingParents(opts.DestPath)
        /\ (ret.err # << >> /\ ret.err[1] = "failed to write local file") =>
               /\ localFs.files = LocalFsBefore.files
               /\ localFs.dirs = LocalFsBefore.dirs \cup MissingParents(opts.DestPath)

\* a get of /etc/f with no destination path that succeeded
GotIntoWorkingDirectory ==
    /\ pc = "Succeeded"
    /\ opts.Operation = <<"get">>
    /\ args.dest_path = Absent
    /\ localFs.files[<<"f">>] = NodeContent
    /\ localFs.dirs = LocalFsBefore.dirs
    /\ ret.result = <<"File successfully copied from node:", "/", "etc", "/", "f",
                      " to ", "f">>

\* C22: a get returns no error only when its read ran to its end on an
\* established stream and the local file holds what was read, its parent
\* directories made; a get that returns an error returns no confirmation
\* and has created or overwritten no local file, and when it is the remote
\* read that failed, has made no local directory; a get that returned an
\* error ends failed
GetAllOrNothing ==
    /\ [][(step = "read" /\ ret' # ret) =>
             IF ret'.err = << >>
             THEN /\ tried' # tried
                  /\ tried'[Len(tried')].outcome = "ok"
                  /\ GetDest \in DOMAIN localFs'.files
                  /\ localFs'.files[GetDest] = NodeContent
                  /\ MissingParents(opts.DestPath) \subseteq localFs'.dirs
                  /\ ret'.result # << >>
             ELSE /\ ret'.result = << >>
                  /\ localFs'.files = localFs.files
                  /\ ret'.err[1] = "failed to read file from node" => localFs' = localFs
                  /\ ret'.err[1] \in {"failed to read file from node",
                                      "failed to create local directory",
                                      "failed to write local file"}]_vars
    /\ []((opts.Operation = <<"get">> /\ Done /\ ret.err # << >>) =>
             /\ pc = "Failed"
             /\ toolResult.isError)

\* a get onto a local file that exists, whose remote read failed: the local
\* file is as it was
GetFailedWithoutOverwrite ==
    /\ pc = "Failed"
    /\ opts.Operation = <<"get">>
    /\ opts.DestPath = EtcF
    /\ NumReq("exec") = 1
    /\ ret.err[1] = "failed to read file from node"
    /\ localFs = LocalFsBefore

\* the files of the node before the call
NodeFsBefore ==
    [files |-> ((<<"/host">> \o EtcF) :> NodeContent),
     dirs  |-> {<<"/host">>, <<"/host", "/">>, <<"/host", "/", "etc">>}]

\* the commands of the exec requests of the call, in the order they were sent
ExecCmds ==
    LET execs == SelectSeq(reqs, LAMBDA r : r.op = "exec")
    IN  [i \in 1..Len(execs) |-> execs[i].cmd]

\* C23: a put reads its local source before it sends any command: when the
\* source cannot be read it returns 'failed to read source file' with no
\* exec request sent and the files of the node as they were; a put that
\* sent a command had read the source
PutReadsSourceFirst ==
    /\ [][(opts.Operation = <<"put">> /\ step = "dispatch" /\ step' # "dispatch") =>
             /\ reqs' = reqs
             /\ nodeFs' = nodeFs
             /\ IF opts.SourcePath = EtcF
                THEN /\ content' = LocalContent
                     /\ ret' = NoRet
                     /\ pc' = "Executing"
                ELSE /\ ret' = [result |-> << >>,
                                err |-> <<"failed to read source file", ": ", "open failed">>]
                     /\ pc' = "TearingDown"]_vars
    /\ []((opts.Operation = <<"put">> /\ opts.SourcePath # EtcF) =>
             /\ NumReq("exec") = 0
             /\ nodeFs = NodeFsBefore
             /\ Done => (pc = "Failed" /\ toolResult.isError))
    /\ []((opts.Operation = <<"put">> /\ NumReq("exec") > 0) => content = LocalContent)

\* a put of a file that does not exist has failed, the pod deleted, with no
\* command sent
PutFailedOnMissingSource ==
    /\ pc = "Failed"
    /\ opts.Operation = <<"put">>
    /\ opts.SourcePath = NoSuch
    /\ ret.err = <<"failed to read source file", ": ", "open failed">>
    /\ NumReq("delete") = 1
    /\ NumReq("exec") = 0
    /\ nodeFs = NodeFsBefore

\* the directory part of each destination of FileArgs that has one to make
DestinationDirectory(dest) ==
    IF dest = TmpD THEN <<"/", "tmp">>
    ELSE IF dest = DeepD THEN <<"/", "tmp", "/", "a">>
    ELSE IF dest = EtcF THEN <<"/", "etc">>
    ELSE << >>

\* C24: the commands a put sends are, when the directory part of the
\* destination is neither '.' nor '/', a mkdir -p of that directory under
\* /host and then the write, and otherwise the write alone; the write is
\* sent only after a mkdir -p that ran to its end on an established stream,
\* and a failed mkdir -p ends the put with no write sent
PutMkdirBeforeWrite ==
    /\ [](opts.Operation = <<"put">> =>
            LET dir == DestinationDirectory(opts.DestPath)
                mkdir == <<"mkdir -p /host">> \o dir
                write == writeCmd(opts.DestPath, LocalContent)
            IN  /\ IF dir = << >>
                   THEN ExecCmds \in {<< >>, <<write>>}
                   ELSE ExecCmds \in {<< >>, <<mkdir>>, <<mkdir, write>>}
                /\ (pc \in {"TearingDown", "Succeeded"} /\ ret.err = << >>) =>
                       ExecCmds = IF dir = << >> THEN <<write>> ELSE <<mkdir, write>>
                /\ (ret.err # << >> /\ ret.err[1] = "failed to create destination directory") =>
                       ExecCmds = <<mkdir>>)
    /\ [][(step = "mkdir" /\ reqs' # reqs) =>
             IF /\ tried' # tried
                /\ tried'[Len(tried')].outcome = "ok"
                /\ opts.Image = <<"busybox">>
             THEN /\ step' = "write"
                  /\ (<<"/host">> \o DestinationDirectory(opts.DestPath)) \in nodeFs'.dirs
             ELSE /\ step' = "none"
                  /\ pc' = "TearingDown"
                  /\ ret'.result = << >>
                  /\ ret'.err[1] = "failed to create destination directory"]_vars

\* a put under a directory to make whose mkdir -p failed: one command was
\* sent, the mkdir -p, and the file was not written
PutFailedInMkdir ==
    /\ pc = "Failed"
    /\ opts.Operation = <<"put">>
    /\ opts.DestPath = DeepD
    /\ ret.err[1] = "failed to create destination directory"
    /\ ExecCmds = <<<<"mkdir -p /host", "/", "tmp", "/", "a">>>>
    /\ nodeFs = NodeFsBefore

\* a put directly under the root has succeeded with the write as its only
\* command
PutWithoutMkdir ==
    /\ pc = "Succeeded"
    /\ opts.Operation = <<"put">>
    /\ opts.DestPath = RootD
    /\ Len(ExecCmds) = 1
    /\ ExecCmds[1][1] = "cat > /host"

\* C25 (as claimed): whatever the content of letters, single quotes and
\* newlines, a write command that ran to its end on an established stream
\* left the whole payload, as it was sent, in the destination file, and the
\* shell ran nothing else: the put returned no error
PayloadIsData ==
    (/\ opts.Operation = <<"put">>
     /\ pc \in {"TearingDown", "Succeeded", "Failed"}
     /\ NumReq("exec") = 1
     /\ tried # << >>
     /\ tried[Len(tried)].outcome = "ok")
    => /\ (<<"/host">> \o opts.DestPath) \in DOMAIN nodeFs.files
       /\ nodeFs.files[<<"/host">> \o opts.DestPath] = escapedContent(content) \o <<"\n">>
       /\ ret.err = << >>

\* a required argument that is missing, empty or not a string
Unusable(v) == v \in {Absent, Str(<< >>), Num}

\* the first of node_name, operation, source_path that is unusable, << >>
\* when none is
FirstUnusable ==
    IF Unusable(args.node_name) THEN <<"node_name">>
    ELSE IF Unusable(args.operation) THEN <<"operation">>
    ELSE IF Unusable(args.source_path) THEN <<"source_path">>
    ELSE << >>

\* C26: a call with node_name, operation or source_path missing, empty or
\* not a string ends failed with exactly 'missing required argument: '
\* followed by the first such name in the order node_name, operation,
\* source_path, with no request sent, no pods client asked for and no
\* option set; a call with none of them so never gets that message; every
\* failed call has an error result with a text, and the Go error the handler
\* returns is always nil
ValidationFirst ==
    /\ pc # "Pending" =>
         IF FirstUnusable # << >>
         THEN /\ pc = "Failed"
              /\ toolResult = [text |-> <<"missing required argument: ">> \o FirstUnusable,
                               isError |-> TRUE, goErr |-> << >>]
              /\ reqs = << >>
              /\ gate = "none"
              /\ cluster = {}
              /\ opts = NoOpts
              /\ ret = NoRet
         ELSE /\ opts.NodeName = args.node_name.s
              /\ toolResult.text = << >> \/ toolResult.text[1] # "missing required argument: "
    /\ toolResult.goErr = << >>
    /\ pc = "Failed" => (toolResult.isError /\ toolResult.text # << >>)
    /\ pc = "Succeeded" => ~toolResult.isError

\* a call whose operation is a number and whose source_path is absent was
\* rejected for its operation
RejectedForOperation ==
    /\ pc = "Failed"
    /\ args.node_name = Str(<<"node1">>)
    /\ args.operation = Num
    /\ args.source_path = Absent
    /\ toolResult.text = <<"missing required argument: ", "operation">>
    /\ toolResult.goErr = << >>
    /\ reqs = << >>

\* C27: the pod of every create request is in the namespace the caller
\* named, 'default' when the namespace is absent, empty or not a string; its
\* image is the one the caller named, 'busybox' when absent, empty or not a
\* string; its container is privileged unless the privileged argument is
\* the boolean false; and it is bound to the node the caller named
DefaultsApplied ==
    \A i \in 1..Len(reqs) :
        reqs[i].op = "create" =>
            /\ reqs[i].pod.Namespace =
                   IF args.namespace = Str(<<"ns1">>) THEN <<"ns1">> ELSE <<"default">>
            /\ reqs[i].ns = reqs[i].pod.Namespace
            /\ reqs[i].pod.Containers[1].Image =
                   IF args.image = Str(<<"alpine">>) THEN <<"alpine">> ELSE <<"busybox">>
            /\ reqs[i].pod.Containers[1].Privileged = (args.privileged # Bool(FALSE))
            /\ reqs[i].pod.NodeName = args.node_name.s
            /\ reqs[i].pod.Name = podName

\* a call with the namespace and the image it named and privileged=false
\* created its pod with them, unprivileged, and succeeded
CreatedAsAsked ==
    /\ pc = "Succeeded"
    /\ args.namespace = Str(<<"ns1">>)
    /\ args.image = Str(<<"alpine">>)
    /\ args.privileged = Bool(FALSE)
    /\ reqs[1].op = "create"
    /\ reqs[1].pod.Namespace = <<"ns1">>
    /\ reqs[1].pod.Containers[1].Image = <<"alpine">>
    /\ ~reqs[1].pod.Containers[1].Privileged

\* a call with an empty namespace, no image and a privileged argument that
\* is not a boolean created a privileged busybox pod in 'default'
CreatedWithDefaults ==
    /\ pc = "Succeeded"
    /\ args.namespace = Str(<< >>)
    /\ args.image = Absent
    /\ args.privileged = Str(<<"false">>)
    /\ reqs[1].op = "create"
    /\ reqs[1].pod.Namespace = <<"default">>
    /\ reqs[1].pod.Containers[1].Image = <<"busybox">>
    /\ reqs[1].pod.Containers[1].Privileged

\* the contexts an error that is first returned in stage p, step st, can
\* begin with
FailureStages(p, st) ==
    IF p = "Pending" THEN {"failed to get pods client"}
    ELSE IF p = "SandboxCreating"
    THEN {"failed to create pod", "pod failed to become ready"}
    ELSE IF p = "SandboxWaitingReady" THEN {"pod failed to become ready"}
    ELSE IF st = "dispatch" THEN {"failed to read source file", "unknown operation: "}
    ELSE IF st = "mkdir" THEN {"failed to create destination directory"}
    ELSE IF st = "write" THEN {"failed to write file to node"}
    ELSE IF st = "read" THEN {"failed to read file from node",
                              "failed to create local directory",
                              "failed to write local file"}
    ELSE IF st = "list" THEN {"failed to list directory"}
    ELSE {}

\* the last transport attempt of the exec request i ended the stream well
ExecEndedWell(i) ==
    \E j \in 1..Len(tried) :
        /\ tried[j].exec = i
        /\ tried[j].outcome = "ok"
        /\ \A k \in (j + 1)..Len(tried) : tried[k].exec # i

\* C28: the error NodesFiles returns begins with the context of the stage it
\* was first raised in, followed by its cause (the error of an unknown
\* operation is the one that has no cause to wrap), comes with no result,
\* ends the operation, and is never replaced; a failed call that passed
\* validation has 'failed to perform node file operation: ' and that one
\* error as its tool result; a call that succeeded returned no error and
\* every command it sent ran to its end on an established stream
ErrorsAreFinal ==
    /\ [][(ret.err = << >> /\ ret'.err # << >>) =>
             /\ ret'.err[1] \in FailureStages(pc, step)
             /\ ret'.err[1] # "unknown operation: " =>
                    (Len(ret'.err) >= 3 /\ ret'.err[2] = ": ")
             /\ ret'.result = << >>
             /\ pc' \in {"TearingDown", "Failed"}]_vars
    /\ [][ret.err # << >> => (ret' = ret /\ pc' \in {"TearingDown", "Failed"})]_vars
    /\ []((pc = "Failed" /\ opts # NoOpts) =>
             /\ ret.err # << >>
             /\ toolResult = [text |-> <<"failed to perform node file operation", ": ">>
                                          \o ret.err,
                              isError |-> TRUE, goErr |-> << >>])
    /\ [](pc = "Succeeded" =>
             /\ ret.err = << >>
             /\ ~toolResult.isError
             /\ NumReq("exec") >= 1
             /\ \A i \in 1..Len(reqs) : reqs[i].op = "exec" => ExecEndedWell(i))

\* a put whose mkdir -p made the directory on the node and whose write
\* failed has failed, with the error of the write as its tool result
FailedAfterPartialProgress ==
    /\ pc = "Failed"
    /\ opts.Operation = <<"put">>
    /\ opts.DestPath = TmpD
    /\ <<"/host", "/", "tmp">> \in nodeFs.dirs
    /\ ret = [result |-> << >>,
              err |-> <<"failed to write file to node", ": ", "OtherError">>]
    /\ toolResult.text = <<"failed to perform node file operation", ": ",
                           "failed to write file to node", ": ", "OtherError">>
    /\ toolResult.isError

\* C29: NodesFiles never returns an error together with a result that is
\* not empty, and returns once; a call that ended and had passed validation
\* ended either succeeded, with the result as the text of a tool result that
\* is no error, or failed, with an error tool result and an empty result;
\* nothing changes the outcome of a call that ended
OneOutcome ==
    /\ [](ret.err # << >> => ret.result = << >>)
    /\ []((Done /\ opts # NoOpts) =>
             IF ret.err = << >>
             THEN /\ pc = "Succeeded"
                  /\ toolResult = [text |-> ret.result, isError |-> FALSE, goErr |-> << >>]
             ELSE /\ pc = "Failed"
                  /\ toolResult.isError
                  /\ ret.result = << >>)
    /\ [][ret # NoRet => ret' = ret]_vars
    /\ [][Done => (pc' = pc /\ toolResult' = toolResult /\ ret' = ret)]_vars

\* a list whose stream broke after the listing was captured has failed with
\* an error and an empty result
FailedWithEmptyResult ==
    /\ pc = "Failed"
    /\ opts.Operation = <<"list">>
    /\ opts.SourcePath = EtcF
    /\ tried # << >>
    /\ tried[Len(tried)].outcome = "Broken"
    /\ ret.err # << >>
    /\ ret.result = << >>
    /\ toolResult.isError

\* C30 (as claimed): the name a call has drawn for its sandbox and not yet
\* created is the name of no pod of a call that runs at the same time, so
\* its create is not refused for the name
NamesNeverCollide ==
    (podName # << >> /\ ~createdPod /\ pc = "SandboxCreating") => podName \notin cluster

\* the request the step has sent, when it has sent one
Sent == reqs'[Len(reqs')]

\* C31: every status get, exec and delete of the call addresses the name of
\* the pod the call itself created, at a time when no other call has a live
\* pod of that name; from its create to its delete the pod of the call
\* exists, so no other call has deleted it; and the delete of another call
\* never removes the pod of this call while this call uses it
OwnedExclusively ==
    /\ [][(Len(reqs') > Len(reqs) /\ Sent.op \in {"get", "exec", "delete"}) =>
             /\ Sent.name = podName
             /\ createdPod
             /\ podName \in cluster
             /\ others[podName] # "live"]_vars
    /\ []((createdPod /\ delOutcome = "none") =>
             (podName \in cluster /\ others[podName] # "live"))
    /\ [][\A n \in PodNames :
             (others[n] = "live" /\ others'[n] = "deleted") =>
                 ~(n = podName /\ createdPod /\ delOutcome = "none")]_vars

\* a call that drew the name of the live pod of another call has failed in
\* its create and has sent no get, no exec and no delete: the pod of the
\* other call is still there
FailedWithoutTouchingOthers ==
    /\ pc = "Failed"
    /\ others[podName] = "live"
    /\ podName \in cluster
    /\ ~createdPod
    /\ NumReq("create") = 1
    /\ NumReq("get") = 0
    /\ NumReq("exec") = 0
    /\ NumReq("delete") = 0

\* C32: the pod of every create request has one container, named
\* 'node-files', whose command is the idle /bin/sh -c "sleep 3600"; one
\* volume, the host path '/', that the container mounts, alone, at '/host';
\* the restart policy Never; and the node the caller named as its node,
\* whatever the namespace, the image and the privileged argument
SandboxShape ==
    \A i \in 1..Len(reqs) :
        reqs[i].op = "create" =>
            LET p == reqs[i].pod
            IN  /\ Len(p.Containers) = 1
                /\ p.Containers[1].Name = "node-files"
                /\ p.Containers[1].Command = <<"/bin/sh", "-c", "sleep 3600">>
                /\ Len(p.Volumes) = 1
                /\ p.Volumes[1].HostPath = "/"
                /\ Len(p.Containers[1].VolumeMounts) = 1
                /\ p.Containers[1].VolumeMounts[1].Name = p.Volumes[1].Name
                /\ p.Containers[1].VolumeMounts[1].MountPath = "/host"
                /\ p.RestartPolicy = "Never"
                /\ p.NodeName \in {<<"node1">>, <<"node2">>}
                /\ p.NodeName = args.node_name.s

\* a call for node2 with its own namespace and image, unprivileged, has sent
\* its create for a pod on node2
CreatedOnNamedNode ==
    /\ NumReq("create") = 1
    /\ args.node_name = Str(<<"node2">>)
    /\ args.namespace = Str(<<"ns1">>)
    /\ args.image = Str(<<"alpine">>)
    /\ args.privileged = Bool(FALSE)
    /\ reqs[1].pod.NodeName = <<"node2">>
    /\ Len(reqs[1].pod.Containers) = 1
    /\ Len(reqs[1].pod.Volumes) = 1

\* C33: a nodes_log call never succeeds with an empty text: a call whose log
\* request returned an empty body without error succeeded with 'The node
\* <name> has not logged any message yet or the log file is empty', a body
\* that is not empty is the text of the result as it is, and the log request
\* is sent only after a get of the node that succeeded, at most once
LogNeverEmpty ==
    /\ [](pc = "Succeeded" =>
            /\ ~toolResult.isError
            /\ toolResult.goErr = << >>
            /\ toolResult.text # << >>
            /\ ret.err = << >>
            /\ toolResult.text =
                 IF ret.result = << >>
                 THEN <<"The node ">> \o args.name.s
                        \o <<" has not logged any message yet or the log file is empty">>
                 ELSE ret.result)
    /\ [](\A i \in 1..Len(reqs) :
            reqs[i].op = "proxyLogs" =>
                /\ i = 2
                /\ reqs[1].op = "nodeGet"
                /\ reqs[1].name = reqs[2].name
                /\ reqs[2].name = args.name.s)
    /\ [][(Len(reqs') > Len(reqs) /\ Sent.op = "proxyLogs") => pc = "LogFetching"]_vars
    /\ [][(pc = "NodeGetting" /\ pc' = "LogFetching") =>
             (Len(reqs') = 1 /\ ret' = NoRet /\ ~ctxCancelled)]_vars
    /\ [](pc = "Failed" => (toolResult.isError /\ Len(reqs) <= 2))

\* a call for the log of node1 whose log request returned an empty body has
\* succeeded with the message
EmptyLogReported ==
    /\ pc = "Succeeded"
    /\ args.name = Str(<<"node1">>)
    /\ NumReq("proxyLogs") = 1
    /\ ret = NoRet
    /\ toolResult.text = <<"The node ", "node1",
                           " has not logged any message yet or the log file is empty">>

\* a call whose log request returned two lines has succeeded with them
LogReturnedUnchanged ==
    /\ pc = "Succeeded"
    /\ toolResult.text = <<"line1", "\n", "line2">>
    /\ ~toolResult.isError

\* what the exec of a list or a get that returned no error returned: the
\* result of the list, the content of the local file of the get
ExecReturned ==
    IF opts.Operation = <<"list">> THEN ret.result ELSE localFs.files[GetDest]

\* C34: the exec of a list or a get whose stream ended without error
\* returned what the command wrote on standard error when it wrote nothing
\* on standard output and something on standard error, and otherwise what it
\* wrote on standard output, alone
ExecOutputIsOneStream ==
    (/\ opts.Operation \in {<<"list">>, <<"get">>}
     /\ pc \in {"TearingDown", "Succeeded"}
     /\ ret.err = << >>)
    => /\ tried # << >>
       /\ tried[Len(tried)].outcome = "ok"
       /\ IF LastRun.stdout = << >> /\ LastRun.stderr # << >>
          THEN ExecReturned = LastRun.stderr
          ELSE ExecReturned = LastRun.stdout
       /\ ExecReturned = IF opts.Operation = <<"list">>
                         THEN <<"ls -la of ", "/host">> \o opts.SourcePath
                         ELSE NodeContent

\* a list in a sandbox whose ls wrote the listing on standard output and a
\* warning on standard error returned the listing alone
ListDiscardedStderr ==
    /\ pc = "Succeeded"
    /\ opts.Operation = <<"list">>
    /\ opts.Image = <<"chatty">>
    /\ LastRun.stdout = <<"ls -la of ", "/host", "/", "etc", "/", "f">>
    /\ LastRun.stderr = <<"warning">>
    /\ ret.result = <<"ls -la of ", "/host", "/", "etc", "/", "f">>

\* C35: a create that failed ends the call at once, failed, with 'failed to
\* create pod' and its cause, with no time spent waiting; a call whose
\* create did not succeed sends no status get, no exec and no delete, and a
\* delete is sent at most once, by a call whose create succeeded
CreateFailureEndsCall ==
    /\ [][(pc = "SandboxCreating" /\ reqs' # reqs /\ ~createdPod') =>
             /\ pc' = "Failed"
             /\ ret' = [result |-> << >>,
                        err |-> <<"failed to create pod", ": ", "create error">>]
             /\ toolResult'.isError
             /\ now' = now
             /\ Len(reqs') = 1
             /\ Sent.op = "create"]_vars
    /\ [](~createdPod =>
             /\ NumReq("get") = 0
             /\ NumReq("exec") = 0
             /\ NumReq("delete") = 0
             /\ pc \notin {"SandboxWaitingReady", "Executing", "TearingDown", "Succeeded"})
    /\ [](NumReq("delete") <= 1)
    /\ []((Done /\ createdPod) => NumReq("delete") = 1)

\* a call whose create failed has failed with the create as its only
\* request, at the time it began
FailedInCreate ==
    /\ pc = "Failed"
    /\ ~createdPod
    /\ Len(reqs) = 1
    /\ reqs[1].op = "create"
    /\ ret.err = <<"failed to create pod", ": ", "create error">>
    /\ toolResult.text = <<"failed to perform node file operation", ": ",
                           "failed to create pod", ": ", "create error">>
    /\ now = 0

\* the place of each kind of request in the order of a call
OpRank(op) ==
    IF op = "create" THEN 1 ELSE IF op = "get" THEN 2 ELSE IF op = "exec" THEN 3 ELSE 4

\* the kinds of the requests of the call, in the order they were sent
Ops == [i \in 1..Len(reqs) |-> reqs[i].op]

\* C36: the requests of a call are one create, then status gets, then
\* execs, then one delete; an exec is sent only when the last status get
\* showed the pod Running and Ready; nothing is sent after the delete; and
\* while the stream of an exec is open the call sends nothing
RequestsInOrder ==
    /\ [](/\ \A i, j \in 1..Len(reqs) : i < j => OpRank(reqs[i].op) <= OpRank(reqs[j].op)
          /\ \A i \in 1..Len(reqs) : reqs[i].op \in {"create", "get", "exec", "delete"}
          /\ NumReq("create") <= 1
          /\ NumReq("delete") <= 1
          /\ NumReq("exec") > 0 =>
                 /\ NumReq("get") > 0
                 /\ pod = [phase |-> "Running", ready |-> TRUE])
    /\ [][Len(reqs') > Len(reqs) =>
             /\ Len(reqs') = Len(reqs) + 1
             /\ ~streamOpen
             /\ NumReq("delete") = 0
             /\ Sent.op = "exec" =>
                    /\ reqs[Len(reqs)].op \in {"get", "exec"}
                    /\ pod' = [phase |-> "Running", ready |-> TRUE]
                    /\ pod' = pod]_vars
    /\ [][NumReq("delete") = 1 => reqs' = reqs]_vars

\* a put under a directory has succeeded with a create, one status get, its
\* two execs and the delete
PutRequestsInOrder ==
    /\ pc = "Succeeded"
    /\ opts.Operation = <<"put">>
    /\ Ops = <<"create", "get", "exec", "exec", "delete">>

\* C37: every request of a call, its create, its status gets, its execs and
\* its delete, goes to the namespace of the call and names the pod by the
\* name the call drew at its start, which is the name in the manifest and
\* never changes; the execs, and only they, name the container 'node-files'
SameAddress ==
    /\ [](\A i \in 1..Len(reqs) :
            /\ reqs[i].name = <<"node-files-", "abcde">>
            /\ reqs[i].name = podName
            /\ reqs[i].ns =
                 IF args.namespace = Str(<<"ns1">>) THEN <<"ns1">> ELSE <<"default">>
            /\ reqs[i].op = "create" =>
                   /\ reqs[i].pod.Name = reqs[i].name
                   /\ reqs[i].pod.Namespace = reqs[i].ns
            /\ reqs[i].container = IF reqs[i].op = "exec" THEN "node-files" ELSE "")
    /\ [][podName # << >> => podName' = podName]_vars

\* a put in the namespace ns1 has succeeded: its create, its status get, its
\* two execs and its delete all went to ns1 for node-files-abcde
PutAddressedOnePod ==
    /\ pc = "Succeeded"
    /\ opts.Operation = <<"put">>
    /\ args.namespace = Str(<<"ns1">>)
    /\ Ops = <<"create", "get", "exec", "exec", "delete">>
    /\ \A i \in 1..5 : reqs[i].ns = <<"ns1">> /\ reqs[i].name = <<"node-files-", "abcde">>
    /\ reqs[3].container = "node-files"
    /\ reqs[4].container = "node-files"

\* C38: a call whose operation is not put, get or list sends no exec and
\* leaves the local files and the files of the node as they were; when its
\* pod was ready it returns 'unknown operation: ' and the operation, with no
\* result; and it ends failed, with one delete when its create succeeded and
\* none otherwise
UnknownOperationHarmless ==
    /\ [](opts.Operation = <<"invalid">> =>
            /\ NumReq("exec") = 0
            /\ tried = << >>
            /\ content = << >>
            /\ localFs = LocalFsBefore
            /\ nodeFs = NodeFsBefore
            /\ (OperationRan /\ pc # "Executing") =>
                   ret = [result |-> << >>,
                          err |-> <<"unknown operation: ", "invalid">>]
            /\ Done =>
                   /\ pc = "Failed"
                   /\ NumReq("delete") = IF createdPod THEN 1 ELSE 0
                   /\ NumReq("create") <= 1)
    /\ [][(opts.Operation = <<"invalid">> /\ step = "dispatch" /\ step' # "dispatch") =>
             /\ ret' = [result |-> << >>, err |-> <<"unknown operation: ", "invalid">>]
             /\ pc' = "TearingDown"
             /\ reqs' = reqs]_vars

\* a call with the operation 'invalid' has failed with 'unknown operation:
\* invalid' after its pod was created, became ready and was deleted
UnknownOperationTornDown ==
    /\ pc = "Failed"
    /\ opts.Operation = <<"invalid">>
    /\ ret.err = <<"unknown operation: ", "invalid">>
    /\ toolResult.text = <<"failed to perform node file operation", ": ",
                           "unknown operation: ", "invalid">>
    /\ NumReq("create") = 1
    /\ NumReq("exec") = 0
    /\ NumReq("delete") = 1
    /\ podName \notin cluster

====
